---- MODULE Spec2Model ----
(***************************************************************************)
(* FOUNDprint (src/foundprint.js): the market-share lookup, the entropy    *)
(* arithmetic, the pixel-ratio analysis and the runExperiment orchestrator *)
(* as a state machine.                                                     *)
(*                                                                         *)
(* Number representation.  JavaScript numbers are modelled at a fixed      *)
(* resolution:                                                             *)
(*   - a market-share percent is an integer number of thousandths of a     *)
(*     percent (25% = 25000),                                              *)
(*   - entropy is an integer number of thousandths of a bit (2 bits =      *)
(*     2000); Math.log2 is evaluated to that resolution,                   *)
(*   - an anonymity-set size ("1 in X") is a decimal number kept as a      *)
(*     little-endian sequence of base-10000 limbs whose first limb is the  *)
(*     fractional part (unit 1/10000), so that 2^86 and 8.3e9 are          *)
(*     representable,                                                      *)
(*   - a pixel ratio is an integer number of 1/10000.                      *)
(***************************************************************************)
EXTENDS Integers, Sequences, FiniteSets, TLC

(***************************************************************************)
(* Bounds of the model (not program constants).                            *)
(***************************************************************************)
MaxClicks == 2
MaxFailed == 1
NumDevices == 20
MaxPad == 1
MaxFairDevices == 2
MaxRawRatio == 42000
MaxValues == 3
MaxReportThrows == 2

\* the longest list of values in a pair of lists that are hashed
MaxPairLen == 2

\* the percents handed to percentToEntropy and percentToOneInX, in
\* thousandths of a percent: from -MaxNonPositive to MaxPercent
MaxNonPositive == 300

MaxPercent == 120000

\* the largest entropy, in whole bits, a result handed to the entropy source
\* selection carries
MaxSuppliedBits == 2

(***************************************************************************)
(* Generic helpers for strings and sequences.                              *)
(***************************************************************************)
Max(a, b) == IF a >= b THEN a ELSE b

Min(a, b) == IF a <= b THEN a ELSE b

Abs(a) == IF a < 0 THEN 0 - a ELSE a

SumSeq[s \in Seq(Int)] == IF Len(s) = 0 THEN 0 ELSE Head(s) + SumSeq[Tail(s)]

\* String.prototype.includes
Includes(s, k) ==
  \E i \in 0..(Len(s) - Len(k)) : SubSeq(s, i + 1, i + Len(k)) = k

\* String.prototype.trim (space is the only whitespace the model uses)
RECURSIVE TrimLeft(_)
TrimLeft(s) ==
  IF Len(s) > 0 /\ SubSeq(s, 1, 1) = " " THEN TrimLeft(SubSeq(s, 2, Len(s))) ELSE s

RECURSIVE TrimRight(_)
TrimRight(s) ==
  IF Len(s) > 0 /\ SubSeq(s, Len(s), Len(s)) = " "
  THEN TrimRight(SubSeq(s, 1, Len(s) - 1)) ELSE s

Trim(s) == TrimRight(TrimLeft(s))

Digits == {"0", "1", "2", "3", "4", "5", "6", "7", "8", "9"}

\* A property name that is a canonical array index ("0", "1", "12", not
\* "1.25", "01" or "null"): Object.keys lists these first, ascending.
IsArrayIndex(k) ==
  /\ Len(k) > 0
  /\ Len(k) <= 9
  /\ \A i \in 1..Len(k) : SubSeq(k, i, i) \in Digits
  /\ (Len(k) > 1 => SubSeq(k, 1, 1) # "0")

DigitVal(c) ==
  CASE c = "0" -> 0 [] c = "1" -> 1 [] c = "2" -> 2 [] c = "3" -> 3
    [] c = "4" -> 4 [] c = "5" -> 5 [] c = "6" -> 6 [] c = "7" -> 7
    [] c = "8" -> 8 [] c = "9" -> 9

RECURSIVE IndexVal(_)
IndexVal(k) ==
  IF Len(k) = 0 THEN 0
  ELSE 10 * IndexVal(SubSeq(k, 1, Len(k) - 1)) + DigitVal(SubSeq(k, Len(k), Len(k)))

(***************************************************************************)
(* SECTION 1: configuration.                                               *)
(***************************************************************************)
\* 8.3e9 people, in units of 1/10000: limbs of 83000000000000
WORLD_POPULATION == <<0, 0, 0, 83>>

(***************************************************************************)
(* SECTION 2: market-share tables.  data is the object literal in source   *)
(* order; percents are in thousandths of a percent.  defaultPercent = 0    *)
(* stands for a table that has no defaultPercent property.                 *)
(***************************************************************************)
SCREEN_RESOLUTION_DATA ==
  [ name |-> "SCREEN_RESOLUTION_DATA",
    data |-> << <<"1920x1080", 23000>>, <<"1366x768", 19000>>,
                <<"1536x864", 8000>>, <<"1440x900", 5000>>,
                <<"1280x720", 4000>>, <<"2560x1440", 4000>>,
                <<"1600x900", 3000>>, <<"1280x800", 3000>>,
                <<"3840x2160", 2000>> >>,
    hasDefault |-> TRUE, defaultPercent |-> 1000 ]

BROWSER_DATA ==
  [ name |-> "BROWSER_DATA",
    data |-> << <<"Chrome", 65000>>, <<"Safari", 18000>>, <<"Edge", 5000>>,
                <<"Firefox", 3000>>, <<"Opera", 2000>> >>,
    hasDefault |-> TRUE, defaultPercent |-> 1000 ]

GPU_DATA ==
  [ name |-> "GPU_DATA",
    data |-> << <<"NVIDIA GeForce RTX 3060", 8320>>,
                <<"NVIDIA GeForce RTX 4060", 7920>>,
                <<"NVIDIA GeForce RTX 3050", 5920>>,
                <<"NVIDIA GeForce GTX 1650", 5600>>,
                <<"NVIDIA GeForce RTX 4060 Ti", 5260>>,
                <<"NVIDIA GeForce RTX 3060 Ti", 4780>>,
                <<"NVIDIA GeForce RTX 3070", 4480>>,
                <<"AMD Radeon Graphics", 4240>>,
                <<"NVIDIA GeForce RTX 4070", 4140>>,
                <<"NVIDIA GeForce RTX 2060", 3920>>,
                <<"NVIDIA GeForce GTX 1060", 3600>>,
                <<"Intel Iris Xe", 3520>>,
                <<"Intel UHD Graphics", 2000>>,
                <<"AMD Radeon RX", 2000>>,
                <<"Apple M1", 1500>>, <<"Apple M2", 1000>>,
                <<"Apple M3", 800>> >>,
    hasDefault |-> TRUE, defaultPercent |-> 500 ]

PIXEL_RATIO_DATA ==
  [ name |-> "PIXEL_RATIO_DATA",
    data |-> << <<"1", 45000>>, <<"2", 30000>>, <<"1.25", 10000>>,
                <<"1.5", 8000>>, <<"3", 3000>>, <<"2.5", 2000>> >>,
    hasDefault |-> TRUE, defaultPercent |-> 2000 ]

DNT_DATA ==
  [ name |-> "DNT_DATA",
    data |-> << <<"1", 20000>>, <<"0", 3000>>, <<"null", 77000>> >>,
    hasDefault |-> TRUE, defaultPercent |-> 77000 ]

CPU_CORES_DATA ==
  [ name |-> "CPU_CORES_DATA",
    data |-> << <<"1", 1000>>, <<"2", 15000>>, <<"4", 35000>>,
                <<"6", 15000>>, <<"8", 20000>>, <<"12", 5000>>,
                <<"16", 5000>> >>,
    hasDefault |-> TRUE, defaultPercent |-> 4000 ]

DEVICE_MEMORY_DATA ==
  [ name |-> "DEVICE_MEMORY_DATA",
    data |-> << <<"2", 5000>>, <<"4", 25000>>, <<"8", 45000>>,
                <<"16", 15000>>, <<"32", 5000>> >>,
    hasDefault |-> TRUE, defaultPercent |-> 5000 ]

AD_BLOCKER_DATA ==
  [ name |-> "AD_BLOCKER_DATA",
    data |-> << <<"true", 42000>>, <<"false", 58000>> >>,
    hasDefault |-> FALSE, defaultPercent |-> 0 ]

TIMEZONE_DATA ==
  [ name |-> "TIMEZONE_DATA",
    data |-> << <<"America/New_York", 12000>>,
                <<"America/Los_Angeles", 10000>>,
                <<"America/Chicago", 8000>>, <<"Asia/Shanghai", 6000>>,
                <<"Europe/London", 5000>>, <<"Asia/Tokyo", 4000>>,
                <<"Europe/Paris", 3000>>, <<"Europe/Berlin", 3000>> >>,
    hasDefault |-> TRUE, defaultPercent |-> 1000 ]

LANGUAGE_DATA ==
  [ name |-> "LANGUAGE_DATA",
    data |-> << <<"en-US", 35000>>, <<"zh-CN", 10000>>, <<"en-GB", 5000>>,
                <<"es", 5000>>, <<"de", 3000>>, <<"fr", 3000>>,
                <<"ja", 3000>> >>,
    hasDefault |-> TRUE, defaultPercent |-> 1000 ]

PLATFORM_DATA ==
  [ name |-> "PLATFORM_DATA",
    data |-> << <<"Win32", 70000>>, <<"MacIntel", 15000>>,
                <<"iPhone", 5000>>, <<"Android", 4000>>,
                <<"Linux x86_64", 3000>>, <<"iPad", 2000>> >>,
    hasDefault |-> TRUE, defaultPercent |-> 1000 ]

Tables ==
  << SCREEN_RESOLUTION_DATA, BROWSER_DATA, GPU_DATA, PIXEL_RATIO_DATA,
     DNT_DATA, CPU_CORES_DATA, DEVICE_MEMORY_DATA, AD_BLOCKER_DATA,
     TIMEZONE_DATA, LANGUAGE_DATA, PLATFORM_DATA >>

(***************************************************************************)
(* SECTION 3: baseline entropy, in thousandths of a bit.                   *)
(***************************************************************************)
\* variant: the lowest figure is used for every attribute, timezone included
BASELINE_ENTROPYLowest ==
  [ canvas |-> 8040, audio |-> 10000, webglRenderer |-> 3410,
    webglVendor |-> 1820, fonts |-> 6970, userAgent |-> 6320,
    timezone |-> 100, language |-> 2560, touchSupport |-> 1000,
    connectionType |-> 1500, plugins |-> 210, doNotTrack |-> 940,
    cookiesEnabled |-> 0, localStorage |-> 40, screenResolution |-> 4830,
    pixelRatio |-> 2000, platform |-> 560, cpuCores |-> 3000,
    deviceMemory |-> 3000 ]

BASELINE_ENTROPY ==
  [ canvas |-> 8040, audio |-> 10000, webglRenderer |-> 3410,
    webglVendor |-> 1820, fonts |-> 6970, userAgent |-> 6320,
    timezone |-> 3040, language |-> 2560, touchSupport |-> 1000,
    connectionType |-> 1500, plugins |-> 210, doNotTrack |-> 940,
    cookiesEnabled |-> 0, localStorage |-> 40, screenResolution |-> 4830,
    pixelRatio |-> 2000, platform |-> 560, cpuCores |-> 3000,
    deviceMemory |-> 3000 ]

\* the figures listed beside each record (its comment and note), in
\* thousandths of a bit; a record without a figure of its own lists its estimate
BaselineCandidates ==
  [ canvas |-> {8040, 8280}, audio |-> {10000},
    webglRenderer |-> {3410, 5280}, webglVendor |-> {2140, 1820},
    fonts |-> {13900, 8380, 6970}, userAgent |-> {10000, 9780, 6320},
    timezone |-> {3040, 3340, 100}, language |-> {5920, 2560},
    touchSupport |-> {1000, 2000, 3000}, connectionType |-> {1500},
    plugins |-> {15400, 11060, 10280, 210}, doNotTrack |-> {940, 1920},
    cookiesEnabled |-> {350, 250, 0}, localStorage |-> {410, 40},
    screenResolution |-> {4830, 5210}, pixelRatio |-> {5640},
    platform |-> {560, 1060}, cpuCores |-> {3000}, deviceMemory |-> {3000} ]

\* the figures a record's comment marks as excluded
BaselineExcluded ==
  [k \in DOMAIN BASELINE_ENTROPY |-> IF k = "timezone" THEN {100} ELSE {}]

(***************************************************************************)
(* Decimal numbers: little-endian limbs in base 10000, without high-order  *)
(* zero limbs.  A "Dec" has one fractional limb (unit 1/10000); a "Big" is *)
(* a plain integer.                                                        *)
(***************************************************************************)
LimbBase == 100 * 100

BigFromInt[n \in Int] ==
  IF n <= 0 THEN << >> ELSE <<n % LimbBase>> \o BigFromInt[n \div LimbBase]

BigStrip[x \in Seq(Int)] ==
  IF Len(x) > 0 /\ x[Len(x)] = 0 THEN BigStrip[SubSeq(x, 1, Len(x) - 1)] ELSE x

BigMulSmall[x \in Seq(Int), k \in Int, carry \in Int] ==
  IF Len(x) = 0 THEN BigFromInt[carry]
  ELSE LET t == Head(x) * k + carry
       IN  <<t % LimbBase>> \o BigMulSmall[Tail(x), k, t \div LimbBase]

\* quotient and remainder of x by a small k
BigDivMod[x \in Seq(Int), k \in Int] ==
  IF Len(x) = 0 THEN [q |-> << >>, r |-> 0]
  ELSE LET hi == BigDivMod[Tail(x), k]
           t  == hi.r * LimbBase + Head(x)
       IN  [q |-> <<t \div k>> \o hi.q, r |-> t % k]

BigDivSmall(x, k) == BigStrip[BigDivMod[x, k].q]

BigAdd[a \in Seq(Int), b \in Seq(Int), carry \in Int] ==
  IF Len(a) = 0 /\ Len(b) = 0 THEN BigFromInt[carry]
  ELSE LET x == IF Len(a) = 0 THEN 0 ELSE Head(a)
           y == IF Len(b) = 0 THEN 0 ELSE Head(b)
           t == x + y + carry
       IN  <<t % LimbBase>>
             \o BigAdd[IF Len(a) = 0 THEN a ELSE Tail(a),
                       IF Len(b) = 0 THEN b ELSE Tail(b), t \div LimbBase]

\* a >= b, both without high-order zero limbs
BigGE[a \in Seq(Int), b \in Seq(Int)] ==
  IF Len(a) # Len(b) THEN Len(a) > Len(b)
  ELSE IF Len(a) = 0 THEN TRUE
  ELSE IF a[Len(a)] # b[Len(b)] THEN a[Len(a)] > b[Len(b)]
  ELSE BigGE[SubSeq(a, 1, Len(a) - 1), SubSeq(b, 1, Len(b) - 1)]

\* drop the n low-order limbs: floor(x / 10000^n)
BigDropLimbs(x, n) == IF Len(x) <= n THEN << >> ELSE SubSeq(x, n + 1, Len(x))

\* Math.min on two decimal numbers
DecMin(a, b) == IF BigGE[a, b] THEN b ELSE a

\* the integer n as a decimal number
DecOfInt(n) == BigStrip[<<0>> \o BigFromInt[n]]

Pad4(n) ==
  (IF n < 10 THEN "000" ELSE IF n < 100 THEN "00" ELSE IF n < 1000 THEN "0" ELSE "")
    \o ToString(n)

Pad3(n) ==
  (IF n < 10 THEN "00" ELSE IF n < 100 THEN "0" ELSE "") \o ToString(n)

\* Number.prototype.toString of a non-negative integer
BigToString[x \in Seq(Int)] ==
  IF Len(x) = 0 THEN "0"
  ELSE IF Len(x) = 1 THEN ToString(x[1])
  ELSE BigToString[Tail(x)] \o Pad4(Head(x))

\* Number.prototype.toLocaleString of a non-negative integer (en-US grouping)
ToLocaleString[n \in Int] ==
  IF n < 1000 THEN ToString(n)
  ELSE ToLocaleString[n \div 1000] \o "," \o Pad3(n % 1000)

\* Number.prototype.toFixed(1) of tenths / 10
ToFixed1(tenths) ==
  LET dm == BigDivMod[tenths, 10]
  IN  BigToString[BigStrip[dm.q]] \o "." \o ToString(dm.r)

(***************************************************************************)
(* Math.log2 and Math.pow(2, .) at the resolution of the model.            *)
(***************************************************************************)
FixedOne == 64 * 128

Pow2Int(n) == 2 ^ n

\* largest n with den * 2^n <= num   (num >= den > 0)
RECURSIVE IntLog2(_, _)
IntLog2(num, den) == IF 2 * den <= num THEN 1 + IntLog2(num, 2 * den) ELSE 0

\* the first k binary digits of log2(x / FixedOne), x in [FixedOne, 2 FixedOne)
RECURSIVE FracLog2(_, _)
FracLog2(x, k) ==
  IF k = 0 THEN 0
  ELSE LET sq == (x * x) \div FixedOne
       IN  IF sq >= 2 * FixedOne
           THEN Pow2Int(k - 1) + FracLog2(sq \div 2, k - 1)
           ELSE FracLog2(sq, k - 1)

\* log2(num / den) in thousandths of a bit
Log2Milli(num, den) ==
  IF num >= den
  THEN LET n == IntLog2(num, den)
           x == (num * FixedOne) \div (den * Pow2Int(n))
       IN  n * 1000 + (FracLog2(x, 12) * 1000) \div Pow2Int(12)
  ELSE LET n == IntLog2(den, num)
           x == (den * FixedOne) \div (num * Pow2Int(n))
       IN  0 - (n * 1000 + (FracLog2(x, 12) * 1000) \div Pow2Int(12))

\* 2^(1/2), 2^(1/4), ... 2^(1/1024), in units of 1/10000
Exp2Roots == <<14142, 11892, 10905, 10443, 10219, 10109, 10054, 10027, 10014, 10007>>

\* 2^(f/1000) in units of 1/10000, 0 <= f < 1000
Exp2Frac[f \in Int, i \in Int, acc \in Int] ==
  IF i > Len(Exp2Roots) THEN acc
  ELSE IF 2 * f >= 1000
       THEN Exp2Frac[2 * f - 1000, i + 1, (acc * Exp2Roots[i]) \div LimbBase]
       ELSE Exp2Frac[2 * f, i + 1, acc]

BigMulPow2[x \in Seq(Int), n \in Int] ==
  IF n = 0 THEN x
  ELSE IF n >= 13 THEN BigMulPow2[BigMulSmall[x, 8192, 0], n - 13]
  ELSE BigMulSmall[x, Pow2Int(n), 0]

BigDivPow2[x \in Seq(Int), n \in Int] ==
  IF n = 0 THEN x
  ELSE IF n >= 13 THEN BigDivPow2[BigDivSmall(x, 8192), n - 13]
  ELSE BigDivSmall(x, Pow2Int(n))

(***************************************************************************)
(* SECTION 4: lookup.                                                      *)
(***************************************************************************)
DataKeys(dataSource) == [i \in 1..Len(dataSource.data) |-> dataSource.data[i][1]]

\* position of key k in the object literal, 0 if it is not an own property
DataIndex(dataSource, k) ==
  IF \E i \in 1..Len(dataSource.data) : dataSource.data[i][1] = k
  THEN CHOOSE i \in 1..Len(dataSource.data) : dataSource.data[i][1] = k
  ELSE 0

\* Object.keys: canonical array indices ascending, then the other names in
\* insertion order
RECURSIVE SortIndexKeys(_)
SortIndexKeys(ks) ==
  IF ks = {} THEN << >>
  ELSE LET m == CHOOSE k \in ks : \A j \in ks : IndexVal(k) <= IndexVal(j)
       IN  <<m>> \o SortIndexKeys(ks \ {m})

\* variant: the keys in insertion order
ObjectKeysInsertionOrder(dataSource) == DataKeys(dataSource)

ObjectKeys(dataSource) ==
  LET keys == DataKeys(dataSource)
      idx  == {keys[i] : i \in {j \in 1..Len(keys) : IsArrayIndex(keys[j])}}
  IN  SortIndexKeys(idx) \o SelectSeq(keys, LAMBDA k : ~IsArrayIndex(k))

\* names every object literal inherits from Object.prototype: data[name] is
\* then a function or object, not undefined
ObjectPrototypeProps ==
  { "constructor", "toString", "toLocaleString", "valueOf", "hasOwnProperty",
    "isPrototypeOf", "propertyIsEnumerable", "__proto__", "__defineGetter__",
    "__defineSetter__", "__lookupGetter__", "__lookupSetter__" }

\* variant: the value is compared without trimming
lookupMarketShareNoTrim(dataSource, value) ==
  LET normalizedValue == value
      own     == DataIndex(dataSource, normalizedValue)
      keys    == ObjectKeys(dataSource)
      partial == {i \in 1..Len(keys) :
                    Includes(normalizedValue, keys[i]) \/ Includes(keys[i], normalizedValue)}
  IN  IF own # 0
      THEN [percent |-> dataSource.data[own][2], percentIsNumber |-> TRUE,
            source |-> dataSource.name, estimated |-> FALSE]
      ELSE IF normalizedValue \in ObjectPrototypeProps
      THEN [percent |-> 0, percentIsNumber |-> FALSE,
            source |-> dataSource.name, estimated |-> FALSE]
      ELSE IF partial # {}
      THEN LET first == CHOOSE i \in partial : \A j \in partial : i <= j
           IN  [percent |-> dataSource.data[DataIndex(dataSource, keys[first])][2],
                percentIsNumber |-> TRUE,
                source |-> dataSource.name, estimated |-> FALSE]
      ELSE [percent |-> IF dataSource.hasDefault /\ dataSource.defaultPercent # 0
                        THEN dataSource.defaultPercent ELSE 1000,
            percentIsNumber |-> TRUE,
            source |-> dataSource.name, estimated |-> TRUE]

\* lookupMarketShare.  percentIsNumber = FALSE marks the case in which
\* data[normalizedValue] is an inherited Object.prototype member (the percent
\* field is then not a number; the model keeps 0 in it).
lookupMarketShare(dataSource, value) ==
  LET normalizedValue == Trim(value)
      own     == DataIndex(dataSource, normalizedValue)
      keys    == ObjectKeys(dataSource)
      partial == {i \in 1..Len(keys) :
                    Includes(normalizedValue, keys[i]) \/ Includes(keys[i], normalizedValue)}
  IN  IF own # 0
      THEN [percent |-> dataSource.data[own][2], percentIsNumber |-> TRUE,
            source |-> dataSource.name, estimated |-> FALSE]
      ELSE IF normalizedValue \in ObjectPrototypeProps
      THEN [percent |-> 0, percentIsNumber |-> FALSE,
            source |-> dataSource.name, estimated |-> FALSE]
      ELSE IF partial # {}
      THEN LET first == CHOOSE i \in partial : \A j \in partial : i <= j
           IN  [percent |-> dataSource.data[DataIndex(dataSource, keys[first])][2],
                percentIsNumber |-> TRUE,
                source |-> dataSource.name, estimated |-> FALSE]
      ELSE [percent |-> IF dataSource.hasDefault /\ dataSource.defaultPercent # 0
                        THEN dataSource.defaultPercent ELSE 1000,
            percentIsNumber |-> TRUE,
            source |-> dataSource.name, estimated |-> TRUE]

\* variant: the ratio inverted, log2(percent / 100)
percentToEntropyInverted(percent) ==
  IF percent <= 0 THEN 10000 ELSE Log2Milli(percent, 100000)

\* percentToEntropy: thousandths of a percent to thousandths of a bit
percentToEntropy(percent) ==
  IF percent <= 0 THEN 10000 ELSE Log2Milli(100000, percent)

\* variant: the cap for a percent <= 0 is 100
percentToOneInXLowCap(percent) ==
  IF percent <= 0 THEN DecOfInt(100)
  ELSE BigFromInt[(100000 * LimbBase) \div percent]

\* percentToOneInX: thousandths of a percent to a decimal number
percentToOneInX(percent) ==
  IF percent <= 0 THEN DecOfInt(1000)
  ELSE BigFromInt[(100000 * LimbBase) \div percent]

(***************************************************************************)
(* SECTION 5: general utilities.                                           *)
(***************************************************************************)
\* formatNumber: text, isUnique and raw of a decimal number
formatNumber(num) ==
  LET text ==
        IF BigGE[num, <<0, 0, 0, 0, 1>>]
        THEN ToFixed1(BigDivSmall(BigDropLimbs(BigAdd[num, <<0, 0, 0, 500>>, 0], 3), 1000))
               \o " trillion"
        ELSE IF BigGE[num, <<0, 0, 0, 10>>]
        THEN ToFixed1(BigDropLimbs(BigAdd[num, <<0, 0, 5000>>, 0], 3)) \o " billion"
        ELSE IF BigGE[num, <<0, 0, 100>>]
        THEN ToFixed1(BigDivSmall(BigDropLimbs(BigAdd[num, <<0, 0, 5>>, 0], 2), 10))
               \o " million"
        ELSE LET r == BigDropLimbs(BigAdd[num, <<5000>>, 0], 1)
                 n == (IF Len(r) >= 1 THEN r[1] ELSE 0)
                        + (IF Len(r) >= 2 THEN r[2] * LimbBase ELSE 0)
             IN  IF BigGE[num, <<0, 1000>>] THEN ToLocaleString[n] ELSE ToString(n)
  IN  [text |-> text, isUnique |-> BigGE[num, WORLD_POPULATION], raw |-> num]

\* entropyToUniqueness: Math.pow(2, bits), bits in thousandths of a bit
entropyToUniqueness(bits) ==
  LET n    == bits \div 1000
      mant == BigFromInt[Exp2Frac[bits % 1000, 1, LimbBase]]
  IN  IF n >= 0 THEN BigMulPow2[mant, n] ELSE BigDivPow2[mant, 0 - n]

\* parseUserAgent(ua).browser.split(' ')[0]: the browser name without version
parseUserAgentBrowserName(ua) ==
  IF Includes(ua, "Firefox/") THEN "Firefox"
  ELSE IF Includes(ua, "Edg/") THEN "Edge"
  ELSE IF Includes(ua, "Chrome/") THEN "Chrome"
  ELSE IF Includes(ua, "Safari/") /\ ~Includes(ua, "Chrome") THEN "Safari"
  ELSE "Unknown"

\* String(n) of a non-negative number given in thousandths ("1", "1.25", "0.37")
Thousandths(n) ==
  LET i == n \div 1000
      f == n % 1000
  IN  ToString(i)
        \o (IF f = 0 THEN ""
            ELSE IF f % 100 = 0 THEN "." \o ToString(f \div 100)
            ELSE IF f % 10 = 0 THEN "." \o (IF f < 100 THEN "0" ELSE "") \o ToString(f \div 10)
            ELSE "." \o Pad3(f))

knownDPRs == <<1000, 1250, 1500, 2000, 2500, 3000>>

commonZoomLevels ==
  << [zoom |-> 1000, percent |-> 100], [zoom |-> 1100, percent |-> 110],
     [zoom |-> 1200, percent |-> 120], [zoom |-> 1250, percent |-> 125],
     [zoom |-> 1330, percent |-> 133], [zoom |-> 1500, percent |-> 150],
     [zoom |-> 1750, percent |-> 175], [zoom |-> 2000, percent |-> 200],
     [zoom |-> 900, percent |-> 90], [zoom |-> 800, percent |-> 80],
     [zoom |-> 750, percent |-> 75], [zoom |-> 670, percent |-> 67],
     [zoom |-> 500, percent |-> 50], [zoom |-> 330, percent |-> 33],
     [zoom |-> 300, percent |-> 30] >>

\* The source computes on IEEE-754 doubles where the model computes on
\* decimals.  The two differ only where a product falls on a rounding tie or
\* a difference equals the tolerance; the three sets below list the outcomes
\* of the double arithmetic in those cases, for ratios up to 4.5.
\* raw ratios r (1/10000) ending in 5 for which Math.round(r * 1000) rounds down
RoundTo3TiesDown ==
  {
    5005, 5015, 5025, 5035, 5045, 5055, 5065, 5075, 5085, 5095, 5105, 5115,
    20035, 20075, 20115, 20155, 20195, 20235, 20275, 20315, 20355, 20395,
    20435, 20475, 40005, 40055, 40085, 40135, 40165, 40215, 40245, 40295,
    40325, 40375, 40405, 40455, 40485, 40535, 40615, 40665, 40695, 40745,
    40775, 40825, 40855, 40905, 40935 }

\* displayRatios d (1/1000) ending in 5 for which Math.round(d * 100) rounds down
RoundTo2TiesDown ==
  {
    145, 285, 565, 575, 1005, 1015, 1025, 1035, 1255, 1265, 1275, 2135,
    2155, 2175, 2195, 2385, 2405, 2425, 2445, 4015, 4145, 4185, 4225, 4265,
    4395, 4435, 4475 }

\* <<displayRatio, baseDPR, zoom percent>> (1/1000, 1/1000, %) whose decimal
\* difference is exactly 0.015 while Math.abs(displayRatio - baseDPR * zoom)
\* is a double below 0.015
ToleranceTiesBelow ==
  {
    <<1015, 1000, 100>>, <<1115, 1000, 110>>, <<1185, 1000, 120>>,
    <<1235, 1000, 125>>, <<1265, 1000, 125>>, <<1345, 1000, 133>>,
    <<1485, 1000, 150>>, <<1515, 1000, 150>>, <<1735, 1000, 175>>,
    <<1765, 1000, 175>>, <<1985, 1000, 200>>, <<815, 1000, 80>>,
    <<345, 1000, 33>>, <<1235, 1250, 100>>, <<1265, 1250, 100>>,
    <<1360, 1250, 110>>, <<1390, 1250, 110>>, <<1485, 1250, 120>>,
    <<1515, 1250, 120>>, <<1860, 1250, 150>>, <<1890, 1250, 150>>,
    <<1110, 1250, 90>>, <<1140, 1250, 90>>, <<1015, 1250, 80>>,
    <<1485, 1500, 100>>, <<1515, 1500, 100>>, <<1665, 1500, 110>>,
    <<1785, 1500, 120>>, <<1860, 1500, 125>>, <<1890, 1500, 125>>,
    <<2010, 1500, 133>>, <<1365, 1500, 90>>, <<1215, 1500, 80>>,
    <<1110, 1500, 75>>, <<1140, 1500, 75>>, <<1020, 1500, 67>>,
    <<435, 1500, 30>>, <<1985, 2000, 100>>, <<2215, 2000, 110>>,
    <<2675, 2000, 133>>, <<4015, 2000, 200>>, <<1815, 2000, 90>>,
    <<1615, 2000, 80>>, <<1485, 2000, 75>>, <<1515, 2000, 75>>,
    <<1355, 2000, 67>>, <<1015, 2000, 50>>, <<3340, 2500, 133>>,
    <<4360, 2500, 175>>, <<4390, 2500, 175>>, <<1985, 2500, 80>>,
    <<1860, 2500, 75>>, <<1890, 2500, 75>>, <<1690, 2500, 67>>,
    <<1235, 2500, 50>>, <<1265, 2500, 50>>, <<840, 2500, 33>>,
    <<3315, 3000, 110>>, <<3585, 3000, 120>>, <<4005, 3000, 133>>,
    <<4485, 3000, 150>>, <<2715, 3000, 90>>, <<2415, 3000, 80>>,
    <<2025, 3000, 67>>, <<1485, 3000, 50>>, <<1515, 3000, 50>>,
    <<1005, 3000, 33>>, <<885, 3000, 30>> }

\* Math.round(ratio * 1000) / 1000, in thousandths (ratio in 1/10000)
displayRatioOf(ratio) ==
  IF ratio \in RoundTo3TiesDown THEN ratio \div 10 ELSE (ratio + 5) \div 10

\* Math.abs(displayRatio - baseDPR * zoom) < tolerance, for the b-th known DPR
\* and the z-th zoom level (zoom level 1 is 100%: the DPR itself)
withinTolerance(displayRatio, b, z) ==
  LET diff == Abs(displayRatio * 1000 - knownDPRs[b] * commonZoomLevels[z].zoom)
  IN  \/ diff < 15000
      \/ /\ diff = 15000
         /\ <<displayRatio, knownDPRs[b], commonZoomLevels[z].percent>>
              \in ToleranceTiesBelow

\* variant: no known DPR is accepted without zoom
directMatchesNone(displayRatio) == {}

\* the known DPRs the first loop accepts
directMatches(displayRatio) ==
  {b \in 1..Len(knownDPRs) : withinTolerance(displayRatio, b, 1)}

\* allMatches: the <<DPR, zoom level>> pairs the nested loops push
allMatches(displayRatio) ==
  {p \in (1..Len(knownDPRs)) \X (1..Len(commonZoomLevels)) :
     /\ commonZoomLevels[p[2]].percent # 100
     /\ withinTolerance(displayRatio, p[1], p[2])}

\* variant: the highest DPR wins
sortedFirstHighestDPR(displayRatio, matches) ==
  CHOOSE p \in matches : \A q \in matches : p[1] >= q[1]

\* allMatches.sort(...)[0]: lowest DPR, then smallest diff, then the
\* earliest pushed (the sort is stable)
sortedFirst(displayRatio, matches) ==
  LET diff(p) == Abs(displayRatio * 1000 - knownDPRs[p[1]] * commonZoomLevels[p[2]].zoom)
  IN  CHOOSE p \in matches : \A q \in matches :
        \/ knownDPRs[p[1]] < knownDPRs[q[1]]
        \/ /\ p[1] = q[1]
           /\ \/ diff(p) < diff(q)
              \/ diff(p) = diff(q) /\ p[2] <= q[2]

\* variant: the zoom is not inferred, 100 is reported
inferredZoomNone(displayRatio) == 100

\* Math.round(displayRatio * 100)
inferredZoom(displayRatio) ==
  IF displayRatio \in RoundTo2TiesDown THEN displayRatio \div 10
  ELSE (displayRatio + 5) \div 10

\* variant: without a match the bucket is the measured ratio itself
analyzePixelRatioOwnBucket(ratio) ==
  LET displayRatio == displayRatioOf(ratio)
      direct  == directMatches(displayRatio)
      matches == allMatches(displayRatio)
  IN  IF direct # {}
      THEN LET b == CHOOSE x \in direct : \A y \in direct : x <= y
           IN  [displayRatio |-> displayRatio, trueDPR |-> knownDPRs[b],
                zoomPercent |-> 100, isZoomed |-> FALSE, confidence |-> "high",
                matchedBucket |-> Thousandths(knownDPRs[b])]
      ELSE IF matches # {}
      THEN LET best == sortedFirst(displayRatio, matches)
           IN  [displayRatio |-> displayRatio, trueDPR |-> knownDPRs[best[1]],
                zoomPercent |-> commonZoomLevels[best[2]].percent, isZoomed |-> TRUE,
                confidence |-> "medium",
                matchedBucket |-> Thousandths(knownDPRs[best[1]])]
      ELSE [displayRatio |-> displayRatio, trueDPR |-> displayRatio,
            zoomPercent |-> inferredZoom(displayRatio), isZoomed |-> TRUE,
            confidence |-> "low", matchedBucket |-> Thousandths(displayRatio)]

\* analyzePixelRatio.  ratio is in units of 1/10000; displayRatio and
\* trueDPR are in thousandths.
analyzePixelRatio(ratio) ==
  LET displayRatio == displayRatioOf(ratio)
      direct  == directMatches(displayRatio)
      matches == allMatches(displayRatio)
  IN  IF direct # {}
      THEN LET b == CHOOSE x \in direct : \A y \in direct : x <= y
           IN  [displayRatio |-> displayRatio, trueDPR |-> knownDPRs[b],
                zoomPercent |-> 100, isZoomed |-> FALSE, confidence |-> "high",
                matchedBucket |-> Thousandths(knownDPRs[b])]
      ELSE IF matches # {}
      THEN LET best == sortedFirst(displayRatio, matches)
           IN  [displayRatio |-> displayRatio, trueDPR |-> knownDPRs[best[1]],
                zoomPercent |-> commonZoomLevels[best[2]].percent, isZoomed |-> TRUE,
                confidence |-> "medium",
                matchedBucket |-> Thousandths(knownDPRs[best[1]])]
      ELSE [displayRatio |-> displayRatio, trueDPR |-> 1000,
            zoomPercent |-> inferredZoom(displayRatio), isZoomed |-> TRUE,
            confidence |-> "low", matchedBucket |-> "1"]

(***************************************************************************)
(* SECTION 6: the probes (tests).  A JavaScript value is a record: t is    *)
(* its type, s its string form (String(v)) and items the elements of an    *)
(* array or the name/value strings of an object.                           *)
(***************************************************************************)
JSString(x) == [t |-> "string", s |-> x, items |-> << >>]

JSNumber(x) == [t |-> "number", s |-> x, items |-> << >>]

JSBoolean(b) == [t |-> "boolean", s |-> IF b THEN "true" ELSE "false", items |-> << >>]

JSNull == [t |-> "null", s |-> "null", items |-> << >>]

JSUndefined == [t |-> "undefined", s |-> "undefined", items |-> << >>]

JSArray(xs) == [t |-> "array", s |-> "", items |-> xs]

JSObject(kvs) == [t |-> "object", s |-> "", items |-> kvs]

\* a probe result whose lookup carries the baseline entropy `bits`
BaselineResult(value, bits) ==
  [ value |-> value, hasLookup |-> TRUE, hasEntropy |-> FALSE, entropy |-> 0,
    lookup |-> [ percentIsNull |-> TRUE, percent |-> 0, estimated |-> TRUE,
                 hasEntropy |-> TRUE, entropy |-> bits,
                 oneInX |-> entropyToUniqueness(bits) ] ]

\* a probe result whose lookup carries a table percent
PercentResult(value, lookup, estimated) ==
  [ value |-> value, hasLookup |-> TRUE, hasEntropy |-> FALSE, entropy |-> 0,
    lookup |-> [ percentIsNull |-> FALSE, percent |-> lookup.percent,
                 estimated |-> estimated,
                 hasEntropy |-> TRUE, entropy |-> percentToEntropy(lookup.percent),
                 oneInX |-> percentToOneInX(lookup.percent) ] ]

\* the probes that look a reading up in a table and fall back to the
\* attribute's baseline when the lookup is estimated: screenResolution,
\* timezone, language, platform, cpuCores, deviceMemory
TableOrBaseline(table, key, value, bits) ==
  LET lookup == lookupMarketShare(table, key)
  IN  IF lookup.estimated THEN BaselineResult(value, bits)
      ELSE PercentResult(value, lookup, FALSE)

\* tests[testName].run() on a reading of the browser, when it returns a result
RunTest(testName, reading) ==
  CASE testName = "screenResolution" ->
         TableOrBaseline(SCREEN_RESOLUTION_DATA, reading, JSString(reading),
                         BASELINE_ENTROPY.screenResolution)
    [] testName = "pixelRatio" ->
         LET analysis == analyzePixelRatio(reading)
             lookup   == lookupMarketShare(PIXEL_RATIO_DATA, analysis.matchedBucket)
             value    == JSNumber(Thousandths(analysis.displayRatio))
         IN  IF analysis.matchedBucket # "" /\ ~lookup.estimated
             THEN PercentResult(value, lookup, FALSE)
             ELSE BaselineResult(value, BASELINE_ENTROPY.pixelRatio)
    [] testName = "timezone" ->
         TableOrBaseline(TIMEZONE_DATA, reading, JSString(reading),
                         BASELINE_ENTROPY.timezone)
    [] testName = "language" ->
         TableOrBaseline(LANGUAGE_DATA, reading, JSString(reading),
                         BASELINE_ENTROPY.language)
    [] testName = "userAgent" ->
         TableOrBaseline(BROWSER_DATA, parseUserAgentBrowserName(reading),
                         JSString(reading), BASELINE_ENTROPY.userAgent)
    [] testName = "platform" ->
         TableOrBaseline(PLATFORM_DATA, reading, JSString(reading),
                         BASELINE_ENTROPY.platform)
    [] testName = "doNotTrack" ->
         LET lookupKey == IF reading = "1" THEN "1"
                          ELSE IF reading = "0" THEN "0" ELSE "null"
             lookup    == lookupMarketShare(DNT_DATA, lookupKey)
             value     == IF reading = "null" THEN JSNull
                          ELSE IF reading = "undefined" THEN JSUndefined
                          ELSE JSString(reading)
         IN  PercentResult(value, lookup, lookup.estimated)
    [] testName = "cpuCores" ->
         TableOrBaseline(CPU_CORES_DATA, reading, JSNumber(reading),
                         BASELINE_ENTROPY.cpuCores)
    [] testName = "deviceMemory" ->
         TableOrBaseline(DEVICE_MEMORY_DATA, reading, JSNumber(reading),
                         BASELINE_ENTROPY.deviceMemory)
    [] testName = "touchSupport" ->
         BaselineResult(JSNumber(reading), BASELINE_ENTROPY.touchSupport)
    [] testName = "adBlocker" ->
         PercentResult(JSBoolean(reading = "true"),
                       lookupMarketShare(AD_BLOCKER_DATA, reading), FALSE)
    [] testName = "connectionType" ->
         BaselineResult(JSString(reading), BASELINE_ENTROPY.connectionType)
    [] testName = "webgl" ->
         IF ~reading.debugInfo
         THEN BaselineResult(JSString(reading.renderer),
                             BASELINE_ENTROPY.webglRenderer \div 2)
         ELSE LET lookup == lookupMarketShare(GPU_DATA, reading.renderer)
                  value  == JSObject(<<"vendor", reading.vendor,
                                       "renderer", reading.renderer>>)
              IN  IF ~lookup.estimated THEN PercentResult(value, lookup, FALSE)
                  ELSE BaselineResult(value, BASELINE_ENTROPY.webglRenderer
                                               + BASELINE_ENTROPY.webglVendor)
    [] testName = "fonts" ->
         BaselineResult(JSArray(reading), BASELINE_ENTROPY.fonts)
    [] testName = "canvas" ->
         BaselineResult(JSString(reading), BASELINE_ENTROPY.canvas)
    [] testName = "audio" ->
         BaselineResult(JSNumber(reading), BASELINE_ENTROPY.audio)

\* tests[testName].name and .difficulty
tests ==
  [ screenResolution |-> [name |-> "Screen Resolution", difficulty |-> "hard"],
    pixelRatio       |-> [name |-> "Pixel Ratio", difficulty |-> "hard"],
    timezone         |-> [name |-> "Timezone", difficulty |-> "easy"],
    language         |-> [name |-> "Language", difficulty |-> "easy"],
    platform         |-> [name |-> "Platform", difficulty |-> "medium"],
    userAgent        |-> [name |-> "Browser/OS", difficulty |-> "medium"],
    doNotTrack       |-> [name |-> "Do Not Track", difficulty |-> "easy"],
    cpuCores         |-> [name |-> "CPU Cores", difficulty |-> "hard"],
    deviceMemory     |-> [name |-> "Device Memory", difficulty |-> "hard"],
    touchSupport     |-> [name |-> "Touch Support", difficulty |-> "hard"],
    connectionType   |-> [name |-> "Connection Type", difficulty |-> "medium"],
    canvas           |-> [name |-> "Canvas Fingerprint", difficulty |-> "hard"],
    webgl            |-> [name |-> "WebGL", difficulty |-> "hard"],
    audio            |-> [name |-> "Audio Fingerprint", difficulty |-> "hard"],
    fonts            |-> [name |-> "Installed Fonts", difficulty |-> "medium"],
    adBlocker        |-> [name |-> "Ad Blocker", difficulty |-> "easy"] ]

\* run() has a path that returns null (feature unavailable)
ReturnsNull ==
  {"cpuCores", "deviceMemory", "connectionType", "canvas", "webgl", "audio", "fonts"}

\* run() is not wrapped in try/catch: an exception of the browser API it
\* reads propagates to runExperiment
MayThrow == DOMAIN tests \ {"canvas", "webgl", "audio"}

\* run() returns a promise that a later callback resolves (setTimeout in
\* adBlocker, context.oncomplete in audio)
AsyncTests == {"adBlocker", "audio"}

(***************************************************************************)
(* The browser the page runs in: what each probe reads.  Device d reads    *)
(* the d-th reading of every attribute (cyclically).                       *)
(***************************************************************************)
Gpu(renderer) == [debugInfo |-> TRUE, vendor |-> "Google Inc.", renderer |-> renderer]

Readings ==
  [ screenResolution |->
      <<"1920x1080", "1366x768", "1536x864", "1440x900", "1280x720",
        "2560x1440", "1600x900", "1280x800", "3840x2160", "2560x1080",
        "3440x1440">>,
    pixelRatio |->
      <<10000, 20000, 12500, 15000, 30000, 25000, 11000, 3700, 17500, 13300,
        40000, 10149>>,
    timezone |->
      <<"America/New_York", "America/Los_Angeles", "America/Chicago",
        "Asia/Shanghai", "Europe/London", "Asia/Tokyo", "Europe/Paris",
        "Europe/Berlin", "Pacific/Auckland", "Australia/Sydney">>,
    language |->
      <<"en-US", "zh-CN", "en-GB", "es", "de", "fr", "ja", "pt-BR", "en",
        "de-DE", "ko">>,
    userAgent |->
      <<"Mozilla/5.0 (Windows NT 10.0; Win64; x64) AppleWebKit/537.36 (KHTML, like Gecko) Chrome/120.0.0.0 Safari/537.36",
        "Mozilla/5.0 (Macintosh; Intel Mac OS X 10_15_7) AppleWebKit/605.1.15 (KHTML, like Gecko) Version/17.1 Safari/605.1.15",
        "Mozilla/5.0 (Windows NT 10.0; Win64; x64) AppleWebKit/537.36 (KHTML, like Gecko) Chrome/120.0.0.0 Safari/537.36 Edg/120.0.0.0",
        "Mozilla/5.0 (X11; Linux x86_64; rv:121.0) Gecko/20100101 Firefox/121.0",
        "Mozilla/5.0 (Windows NT 10.0; Win64; x64) AppleWebKit/537.36 (KHTML, like Gecko) Chrome/120.0.0.0 Safari/537.36 OPR/106.0.0.0",
        "Lynx/2.8.9rel.1 libwww-FM/2.14">>,
    platform |->
      <<"Win32", "MacIntel", "iPhone", "Android", "Linux x86_64", "iPad",
        "Linux armv8l", "Linux", "FreeBSD amd64">>,
    doNotTrack |-> <<"null", "1", "0", "unspecified", "undefined", "yes">>,
    cpuCores |-> <<"4", "8", "2", "6", "12", "16", "1", "3", "24", "10", "32">>,
    deviceMemory |-> <<"8", "4", "16", "2", "32", "1", "0.5", "0.25">>,
    touchSupport |-> <<"0", "5", "1", "10">>,
    adBlocker |-> <<"false", "true">>,
    connectionType |-> <<"4g", "3g", "2g", "slow-2g">>,
    webgl |->
      << Gpu("NVIDIA GeForce RTX 3060"), Gpu("NVIDIA GeForce RTX 4060"),
         Gpu("NVIDIA GeForce RTX 3050"), Gpu("NVIDIA GeForce GTX 1650"),
         Gpu("NVIDIA GeForce RTX 4060 Ti"), Gpu("NVIDIA GeForce RTX 3060 Ti"),
         Gpu("NVIDIA GeForce RTX 3070"), Gpu("AMD Radeon Graphics"),
         Gpu("NVIDIA GeForce RTX 4070"), Gpu("NVIDIA GeForce RTX 2060"),
         Gpu("NVIDIA GeForce GTX 1060"), Gpu("Intel Iris Xe"),
         Gpu("Intel UHD Graphics"), Gpu("AMD Radeon RX"), Gpu("Apple M1"),
         Gpu("Apple M2"), Gpu("Apple M3"),
         Gpu("ANGLE (Intel, Intel(R) UHD Graphics 630 Direct3D11 vs_5_0 ps_5_0, D3D11)"),
         Gpu("Mali-G78"),
         [debugInfo |-> FALSE, vendor |-> "", renderer |-> "WebKit WebGL"] >>,
    fonts |->
      << <<"Arial", "Courier New", "Georgia", "Times New Roman", "Verdana">>,
         <<"Arial", "Helvetica", "Menlo", "Monaco", "SF Pro">>,
         <<"DejaVu Sans", "Liberation Sans", "Ubuntu">> >>,
    canvas |->
      <<"data:image/png;base64,iVBORw0KGgoAAAANSUhEUgAA",
        "data:image/png;base64,iVBORw0KGgoAAAANSUhEUgAB">>,
    audio |-> <<"124.0434", "35.7383", "124.0435">> ]

Reading(testName, d) ==
  Readings[testName][((d - 1) % Len(Readings[testName])) + 1]

\* tests[testName].run() in browser d, for every browser and probe
ProbeResults ==
  [d \in 1..NumDevices |->
     [testName \in DOMAIN tests |-> RunTest(testName, Reading(testName, d))]]

(***************************************************************************)
(* FingerprintHasher.                                                      *)
(***************************************************************************)
\* the characters of a string with the quote and the backslash escaped
JSONQuoteRest[x \in STRING] ==
  IF Len(x) = 0 THEN ""
  ELSE IF Len(x) = 1
  THEN (IF x = "\"" THEN "\\\"" ELSE IF x = "\\" THEN "\\\\" ELSE x)
  ELSE LET h == Len(x) \div 2
       IN  JSONQuoteRest[SubSeq(x, 1, h)] \o JSONQuoteRest[SubSeq(x, h + 1, Len(x))]

\* JSON.stringify of a string
JSONQuote(x) == "\"" \o JSONQuoteRest[x] \o "\""

JoinStrings[xs \in Seq(STRING), sep \in STRING] ==
  IF Len(xs) = 0 THEN ""
  ELSE IF Len(xs) = 1 THEN xs[1]
  ELSE xs[1] \o sep \o JoinStrings[Tail(xs), sep]

\* JSON.stringify(v); for undefined it returns undefined, which
\* Array.prototype.join renders as the empty string
JSONStringify(v) ==
  CASE v.t = "string" -> JSONQuote(v.s)
    [] v.t = "number" -> v.s
    [] v.t = "boolean" -> v.s
    [] v.t = "null" -> "null"
    [] v.t = "undefined" -> ""
    [] v.t = "array" ->
         "[" \o JoinStrings[[i \in 1..Len(v.items) |-> JSONQuote(v.items[i])], ","] \o "]"
    [] v.t = "object" ->
         "{" \o JoinStrings[[i \in 1..(Len(v.items) \div 2) |->
                               JSONQuote(v.items[2 * i - 1]) \o ":"
                                 \o JSONQuote(v.items[2 * i])], ","] \o "}"

\* md5(str): the digest is kept as the hashed string itself, tagged; equal
\* digests are taken to mean equal inputs
md5(str) == [digestOf |-> str]

\* variant: the stringified values are hashed without their order
generateFingerprintHashUnordered(values) ==
  md5({JSONStringify(values[i]) : i \in 1..Len(values)})

generateFingerprintHash(values) ==
  md5(JoinStrings[[i \in 1..Len(values) |-> JSONStringify(values[i])], "|"])

(***************************************************************************)
(* SECTION 8: the orchestrator (runExperiment) and its display helpers.    *)
(***************************************************************************)
\* variant: platform before userAgent
testOrderSwapped ==
  <<"screenResolution", "pixelRatio", "timezone", "language", "platform",
    "userAgent", "doNotTrack", "cpuCores", "deviceMemory", "touchSupport",
    "adBlocker", "connectionType", "webgl", "fonts", "canvas", "audio">>

testOrder ==
  <<"screenResolution", "pixelRatio", "timezone", "language", "userAgent",
    "platform", "doNotTrack", "cpuCores", "deviceMemory", "touchSupport",
    "adBlocker", "connectionType", "webgl", "fonts", "canvas", "audio">>

\* Number.prototype.toFixed(1) of an entropy, with the " bits" suffix
bitsText(bits) == ToFixed1(BigFromInt[(bits + 50) \div 100]) \o " bits"

\* a decimal number used as a condition: 0 is falsy
Truthy(num) == BigStrip[num] # << >>

\* the choice of the entropy of a result: result.lookup.entropy, then
\* result.entropy, then the WebGL combination, then BASELINE_ENTROPY, then
\* the 1.0-bit fallback
\* variant: the baseline record is preferred over the entropy of the lookup
SelectEntropyBaselineFirst(testName, result) ==
  IF testName \in DOMAIN BASELINE_ENTROPY
  THEN [entropyBits |-> BASELINE_ENTROPY[testName], isEstimated |-> TRUE,
        rule |-> "baseline"]
  ELSE IF result.hasLookup /\ result.lookup.hasEntropy
  THEN [entropyBits |-> result.lookup.entropy,
        isEstimated |-> result.lookup.estimated, rule |-> "lookup"]
  ELSE [entropyBits |-> 1000, isEstimated |-> TRUE, rule |-> "fallback"]

SelectEntropy(testName, result) ==
  IF result.hasLookup /\ result.lookup.hasEntropy
  THEN [entropyBits |-> result.lookup.entropy,
        isEstimated |-> result.lookup.estimated, rule |-> "lookup"]
  ELSE IF result.hasEntropy
  THEN [entropyBits |-> result.entropy, isEstimated |-> FALSE, rule |-> "result"]
  ELSE IF testName = "webgl"
  THEN [entropyBits |-> BASELINE_ENTROPY.webglRenderer + BASELINE_ENTROPY.webglVendor,
        isEstimated |-> TRUE, rule |-> "webgl"]
  ELSE IF testName \in DOMAIN BASELINE_ENTROPY
  THEN [entropyBits |-> BASELINE_ENTROPY[testName], isEstimated |-> TRUE,
        rule |-> "baseline"]
  ELSE [entropyBits |-> 1000, isEstimated |-> TRUE, rule |-> "fallback"]

\* the state of one invocation of runExperiment before its first await
\* returns; outcomes is the history of what each invoked probe did, framings
\* the wording of the running-total line of every result line appended to the
\* results container
NewRun ==
  [ pc |-> "fade", i |-> 1,
    totalEntropy |-> 0, successfulTests |-> 0, failedTests |-> << >>,
    fingerprintValues |-> << >>, alreadyUnique |-> FALSE,
    completedTests |-> << >>,
    invoked |-> << >>, outcomes |-> << >>, framings |-> << >>,
    lineArgs |-> [testEntropy |-> 0, oneInX |-> << >>, isEstimated |-> FALSE,
                  totalEntropy |-> 0, isFirstTest |-> FALSE,
                  wasAlreadyUnique |-> FALSE],
    line |-> [shown |-> FALSE, testUnique |-> "", bits |-> "", estimated |-> FALSE,
              count |-> "", framing |-> "", totalEntropy |-> 0],
    hashed |-> 0, fingerprintHash |-> md5("") ]

\* the probe of testOrder[run.i] is invoked: await test.run()
Invoke(run, outcome) ==
  [run EXCEPT !.invoked = Append(@, testOrder[run.i]),
              !.outcomes = Append(@, outcome)]

\* variant: a null result is also counted and its value kept
RecordUnavailableCounted(run) ==
  [run EXCEPT !.failedTests = Append(@, tests[testOrder[run.i]].name),
              !.successfulTests = @ + 1,
              !.fingerprintValues = Append(@, JSNull),
              !.i = @ + 1, !.pc = "loop"]

\* result === null || result === undefined: failedTests.push, continue
RecordUnavailable(run) ==
  [run EXCEPT !.failedTests = Append(@, tests[testOrder[run.i]].name),
              !.i = @ + 1, !.pc = "loop"]

\* variant: the catch block goes on without recording the attribute
CatchProbeErrorSilent(run) ==
  [run EXCEPT !.i = @ + 1, !.pc = "loop"]

\* catch (e): failedTests.push, then the next iteration of the loop
CatchProbeError(run) ==
  [run EXCEPT !.failedTests = Append(@, tests[testOrder[run.i]].name),
              !.i = @ + 1, !.pc = "loop"]

\* variant: the total stops growing once 2^totalEntropy reaches the population
AggregateClamped(run, result) ==
  LET testName == testOrder[run.i]
      sel      == SelectEntropy(testName, result)
      sum      == run.totalEntropy + sel.entropyBits
      total    == IF BigGE[entropyToUniqueness(sum), WORLD_POPULATION]
                  THEN Max(run.totalEntropy, 32950) ELSE sum
      oneInX   == IF result.hasLookup /\ Truthy(result.lookup.oneInX)
                  THEN result.lookup.oneInX
                  ELSE entropyToUniqueness(sel.entropyBits)
  IN  [run EXCEPT
         !.totalEntropy = total,
         !.successfulTests = @ + 1,
         !.fingerprintValues = Append(@, result.value),
         !.completedTests = Append(@, [name |-> tests[testName].name,
                                       difficulty |-> tests[testName].difficulty,
                                       entropy |-> sel.entropyBits]),
         !.lineArgs = [testEntropy |-> sel.entropyBits, oneInX |-> oneInX,
                       isEstimated |-> sel.isEstimated, totalEntropy |-> total,
                       isFirstTest |-> (run.successfulTests + 1 = 1),
                       wasAlreadyUnique |-> run.alreadyUnique],
         !.pc = "report"]

\* the accumulators after a result, and the call of addResultLine
Aggregate(run, result) ==
  LET testName == testOrder[run.i]
      sel      == SelectEntropy(testName, result)
      total    == run.totalEntropy + sel.entropyBits
      oneInX   == IF result.hasLookup /\ Truthy(result.lookup.oneInX)
                  THEN result.lookup.oneInX
                  ELSE entropyToUniqueness(sel.entropyBits)
  IN  [run EXCEPT
         !.totalEntropy = total,
         !.successfulTests = @ + 1,
         !.fingerprintValues = Append(@, result.value),
         !.completedTests = Append(@, [name |-> tests[testName].name,
                                       difficulty |-> tests[testName].difficulty,
                                       entropy |-> sel.entropyBits]),
         !.lineArgs = [testEntropy |-> sel.entropyBits, oneInX |-> oneInX,
                       isEstimated |-> sel.isEstimated, totalEntropy |-> total,
                       isFirstTest |-> (run.successfulTests + 1 = 1),
                       wasAlreadyUnique |-> run.alreadyUnique],
         !.pc = "report"]

\* variant: the crossing wording is used for every total that has reached the
\* world population
addResultLineCrossingAgain(args) ==
  LET testFormatted  == formatNumber(args.oneInX)
      totalFormatted == formatNumber(entropyToUniqueness(args.totalEntropy))
      framing == IF totalFormatted.isUnique THEN "crossing"
                 ELSE IF args.isFirstTest THEN "first"
                 ELSE "now"
  IN  [ line |-> [shown |-> TRUE, testUnique |-> testFormatted.text,
                  bits |-> bitsText(args.testEntropy),
                  estimated |-> args.isEstimated,
                  count |-> totalFormatted.text, framing |-> framing,
                  totalEntropy |-> args.totalEntropy],
        isUnique |-> totalFormatted.isUnique ]

\* addResultLine: the per-test line, the running-total line and the
\* returned isUnique
addResultLine(args) ==
  LET testFormatted  == formatNumber(args.oneInX)
      totalFormatted == formatNumber(entropyToUniqueness(args.totalEntropy))
      framing == IF totalFormatted.isUnique /\ ~args.wasAlreadyUnique THEN "crossing"
                 ELSE IF totalFormatted.isUnique THEN "unique"
                 ELSE IF args.isFirstTest THEN "first"
                 ELSE "now"
  IN  [ line |-> [shown |-> TRUE, testUnique |-> testFormatted.text,
                  bits |-> bitsText(args.testEntropy),
                  estimated |-> args.isEstimated,
                  count |-> totalFormatted.text, framing |-> framing,
                  totalEntropy |-> args.totalEntropy],
        isUnique |-> totalFormatted.isUnique ]

\* variant: no hash when no probe delivered a value
ComputeHashSkipEmpty(run) ==
  IF run.fingerprintValues = << >> THEN [run EXCEPT !.pc = "reveal"]
  ELSE [run EXCEPT !.fingerprintHash = generateFingerprintHash(run.fingerprintValues),
                   !.hashed = @ + 1, !.pc = "reveal"]

\* const fingerprintHash = generateFingerprintHash(fingerprintValues)
ComputeHash(run) ==
  [run EXCEPT !.fingerprintHash = generateFingerprintHash(run.fingerprintValues),
              !.hashed = @ + 1, !.pc = "reveal"]

\* variant: the anonymity set is computed from the whole bits only
showFinalRevealWholeBits(successfulTests, totalEntropy, fingerprintHash) ==
  LET formatted == formatNumber(entropyToUniqueness((totalEntropy \div 1000) * 1000))
  IN  [ display |-> TRUE, tests |-> successfulTests,
        bits |-> bitsText(totalEntropy), isUnique |-> formatted.isUnique,
        uniqueness |-> IF formatted.isUnique THEN "You are unique."
                       ELSE "You are 1 in " \o formatted.text \o ".",
        hash |-> fingerprintHash ]

\* showFinalReveal: what the final container shows
showFinalReveal(successfulTests, totalEntropy, fingerprintHash) ==
  LET formatted == formatNumber(entropyToUniqueness(totalEntropy))
  IN  [ display |-> TRUE, tests |-> successfulTests,
        bits |-> bitsText(totalEntropy), isUnique |-> formatted.isUnique,
        uniqueness |-> IF formatted.isUnique THEN "You are unique."
                       ELSE "You are 1 in " \o formatted.text \o ".",
        hash |-> fingerprintHash ]

\* variant: every test that is not easy is counted as medium
showEndStateMediumOrHard(successfulTests, failedTests, completedTests) ==
  LET easyTests   == SelectSeq(completedTests, LAMBDA t : t.difficulty = "easy")
      mediumTests == SelectSeq(completedTests, LAMBDA t : t.difficulty # "easy")
      hardTests   == SelectSeq(completedTests, LAMBDA t : t.difficulty = "hard")
      sumEntropy(ts) == SumSeq[[k \in 1..Len(ts) |-> ts[k].entropy]]
      names(ts) == [k \in 1..Len(ts) |-> ts[k].name]
      hardOnlyFormatted ==
        formatNumber(DecMin(entropyToUniqueness(sumEntropy(hardTests)), WORLD_POPULATION))
  IN  [ display |-> TRUE,
        failed |-> IF Len(failedTests) > 0
                   THEN "Unable to detect: " \o JoinStrings[failedTests, ", "] \o "."
                   ELSE "",
        rows |-> names(easyTests) \o names(mediumTests) \o names(hardTests),
        easyBits |-> bitsText(sumEntropy(easyTests)),
        mediumBits |-> bitsText(sumEntropy(mediumTests)),
        hardBits |-> bitsText(sumEntropy(hardTests)),
        easyEntropy |-> sumEntropy(easyTests),
        mediumEntropy |-> sumEntropy(mediumTests),
        hardEntropy |-> sumEntropy(hardTests),
        hardOnly |-> hardOnlyFormatted.text,
        hardCount |-> Len(hardTests), count |-> Len(completedTests) ]

\* showEndState: what the end container shows
showEndState(successfulTests, failedTests, completedTests) ==
  LET easyTests   == SelectSeq(completedTests, LAMBDA t : t.difficulty = "easy")
      mediumTests == SelectSeq(completedTests, LAMBDA t : t.difficulty = "medium")
      hardTests   == SelectSeq(completedTests, LAMBDA t : t.difficulty = "hard")
      sumEntropy(ts) == SumSeq[[k \in 1..Len(ts) |-> ts[k].entropy]]
      names(ts) == [k \in 1..Len(ts) |-> ts[k].name]
      hardOnlyFormatted ==
        formatNumber(DecMin(entropyToUniqueness(sumEntropy(hardTests)), WORLD_POPULATION))
  IN  [ display |-> TRUE,
        failed |-> IF Len(failedTests) > 0
                   THEN "Unable to detect: " \o JoinStrings[failedTests, ", "] \o "."
                   ELSE "",
        rows |-> names(easyTests) \o names(mediumTests) \o names(hardTests),
        easyBits |-> bitsText(sumEntropy(easyTests)),
        mediumBits |-> bitsText(sumEntropy(mediumTests)),
        hardBits |-> bitsText(sumEntropy(hardTests)),
        easyEntropy |-> sumEntropy(easyTests),
        mediumEntropy |-> sumEntropy(mediumTests),
        hardEntropy |-> sumEntropy(hardTests),
        hardOnly |-> hardOnlyFormatted.text,
        hardCount |-> Len(hardTests), count |-> Len(completedTests) ]

(***************************************************************************)
(* SECTION 9: the page as a state machine.                                 *)
(***************************************************************************)
VARIABLES
  device,             \* the browser: which reading each probe gets
  failing,            \* the browser: the attributes whose probe fails
  clickLimit,         \* how many times the user activates Start per page load
  runs,               \* the invocations of runExperiment since the page loaded
  disclaimerDisplay,  \* disclaimer.style.display
  finalContainer,     \* what #foundprint-final shows
  endContainer,       \* what #foundprint-end shows
  call                \* the last direct call of a pure function and its result

vars ==
  <<device, failing, clickLimit, runs, disclaimerDisplay, finalContainer,
    endContainer, call>>

env == <<device, failing, clickLimit>>

Hidden == [display |-> FALSE]

NoCall == [fn |-> "none"]

\* the sets of failing attributes the model explores: every set of at most
\* MaxFailed attributes, every probe failing, and a browser without the
\* optional APIs
FailureSets ==
  {S \in SUBSET (DOMAIN tests) : Cardinality(S) <= MaxFailed}
    \cup {DOMAIN tests, ReturnsNull}

\* createUI: the page after init()
PageLoaded ==
  /\ runs = << >>
  /\ disclaimerDisplay = "block"
  /\ finalContainer = Hidden
  /\ endContainer = Hidden

Init ==
  /\ device \in 1..NumDevices
  /\ failing \in FailureSets
  /\ clickLimit = 1
  /\ call = NoCall
  /\ PageLoaded

\* the page with a user who activates Start repeatedly
InitClicks ==
  /\ device = 1
  /\ failing = {"timezone", "canvas"}
  /\ clickLimit = MaxClicks
  /\ call = NoCall
  /\ PageLoaded

\* the click listener of the Start button: runExperiment() up to its first
\* await.  The button is inside the disclaimer and can be activated while
\* the disclaimer is displayed.
ClickStart ==
  /\ disclaimerDisplay # "none"
  /\ Len(runs) < clickLimit
  /\ runs' = Append(runs, NewRun)
  /\ UNCHANGED <<env, disclaimerDisplay, finalContainer, endContainer, call>>

\* variant: the accumulators are shared, a run goes on from those of the
\* first run
FadeDoneShared(r) ==
  /\ runs[r].pc = "fade"
  /\ disclaimerDisplay' = "none"
  /\ runs' = [runs EXCEPT ![r] =
                [NewRun EXCEPT !.pc = "loop",
                               !.totalEntropy = runs[1].totalEntropy,
                               !.successfulTests = runs[1].successfulTests,
                               !.failedTests = runs[1].failedTests,
                               !.fingerprintValues = runs[1].fingerprintValues,
                               !.alreadyUnique = runs[1].alreadyUnique,
                               !.completedTests = runs[1].completedTests]]
  /\ UNCHANGED <<env, finalContainer, endContainer, call>>

\* after sleep(300): the disclaimer is hidden and the accumulators are set
FadeDone(r) ==
  /\ runs[r].pc = "fade"
  /\ disclaimerDisplay' = "none"
  /\ runs' = [runs EXCEPT ![r] = [NewRun EXCEPT !.pc = "loop"]]
  /\ UNCHANGED <<env, finalContainer, endContainer, call>>

AtTest(r) == runs[r].pc = "loop" /\ runs[r].i <= Len(testOrder)

\* test.run() returns null
ProbeReturnsNull(r) ==
  /\ AtTest(r)
  /\ testOrder[runs[r].i] \in failing \cap ReturnsNull
  /\ runs' = [runs EXCEPT ![r] = RecordUnavailable(Invoke(runs[r], "null"))]
  /\ UNCHANGED <<env, disclaimerDisplay, finalContainer, endContainer, call>>

\* test.run() throws, or the promise of an async run() is rejected
ProbeThrows(r) ==
  /\ AtTest(r)
  /\ testOrder[runs[r].i] \in failing \cap MayThrow
  /\ runs' = [runs EXCEPT ![r] = CatchProbeError(Invoke(runs[r], "throw"))]
  /\ UNCHANGED <<env, disclaimerDisplay, finalContainer, endContainer, call>>

\* a synchronous test.run() returns a result; the result is aggregated in
\* the same task and addResultLine starts
ProbeSyncSucceeds(r) ==
  /\ AtTest(r)
  /\ testOrder[runs[r].i] \notin failing \cup AsyncTests
  /\ runs' = [runs EXCEPT ![r] =
                Aggregate(Invoke(runs[r], "ok"),
                          ProbeResults[device][testOrder[runs[r].i]])]
  /\ UNCHANGED <<env, disclaimerDisplay, finalContainer, endContainer, call>>

\* an asynchronous test.run() returns a pending promise
ProbeAsyncStarts(r) ==
  /\ AtTest(r)
  /\ testOrder[runs[r].i] \in AsyncTests \ failing
  /\ runs' = [runs EXCEPT ![r] = [Invoke(runs[r], "ok") EXCEPT !.pc = "probing"]]
  /\ UNCHANGED <<env, disclaimerDisplay, finalContainer, endContainer, call>>

\* the callback of the pending probe resolves its promise; the result is
\* aggregated and addResultLine starts
ProbeAsyncResolves(r) ==
  /\ runs[r].pc = "probing"
  /\ runs' = [runs EXCEPT ![r] =
                Aggregate(runs[r], ProbeResults[device][testOrder[runs[r].i]])]
  /\ UNCHANGED <<env, disclaimerDisplay, finalContainer, endContainer, call>>

\* addResultLine returns: the line is shown, alreadyUnique is updated and
\* the loop goes on
ReportDone(r) ==
  /\ runs[r].pc = "report"
  /\ LET shown == addResultLine(runs[r].lineArgs)
     IN  runs' = [runs EXCEPT ![r] =
                    [runs[r] EXCEPT !.line = shown.line,
                                    !.framings = Append(@, shown.line.framing),
                                    !.alreadyUnique = @ \/ shown.isUnique,
                                    !.i = @ + 1, !.pc = "loop"]]
  /\ UNCHANGED <<env, disclaimerDisplay, finalContainer, endContainer, call>>

\* the loop is over: the hash is computed and showFinalReveal is called
LoopDone(r) ==
  /\ runs[r].pc = "loop"
  /\ runs[r].i > Len(testOrder)
  /\ runs' = [runs EXCEPT ![r] = ComputeHash(runs[r])]
  /\ UNCHANGED <<env, disclaimerDisplay, finalContainer, endContainer, call>>

\* showFinalReveal after its dramatic pause
FinalReveal(r) ==
  /\ runs[r].pc = "reveal"
  /\ finalContainer' = showFinalReveal(runs[r].successfulTests, runs[r].totalEntropy,
                                        runs[r].fingerprintHash)
  /\ runs' = [runs EXCEPT ![r].pc = "endwait"]
  /\ UNCHANGED <<env, disclaimerDisplay, endContainer, call>>

\* after sleep(800): showEndState
ShowEnd(r) ==
  /\ runs[r].pc = "endwait"
  /\ endContainer' = showEndState(runs[r].successfulTests, runs[r].failedTests,
                                   runs[r].completedTests)
  /\ runs' = [runs EXCEPT ![r].pc = "done"]
  /\ UNCHANGED <<env, disclaimerDisplay, finalContainer, call>>

\* the click listener of Run Again: the page is reloaded
RunAgain ==
  /\ endContainer.display
  /\ runs' = << >>
  /\ disclaimerDisplay' = "block"
  /\ finalContainer' = Hidden
  /\ endContainer' = Hidden
  /\ UNCHANGED <<env, call>>

\* one step of a run that a timer, a callback or the continuation of an
\* await performs
RunStep(r) ==
  \/ FadeDone(r)
  \/ ProbeReturnsNull(r)
  \/ ProbeThrows(r)
  \/ ProbeSyncSucceeds(r)
  \/ ProbeAsyncStarts(r)
  \/ ProbeAsyncResolves(r)
  \/ ReportDone(r)
  \/ LoopDone(r)
  \/ FinalReveal(r)
  \/ ShowEnd(r)

Step == \E r \in 1..Len(runs) : RunStep(r)

Next ==
  \/ ClickStart
  \/ \E r \in 1..Len(runs) : FadeDone(r)
  \/ \E r \in 1..Len(runs) : ProbeReturnsNull(r)
  \/ \E r \in 1..Len(runs) : ProbeThrows(r)
  \/ \E r \in 1..Len(runs) : ProbeSyncSucceeds(r)
  \/ \E r \in 1..Len(runs) : ProbeAsyncStarts(r)
  \/ \E r \in 1..Len(runs) : ProbeAsyncResolves(r)
  \/ \E r \in 1..Len(runs) : ReportDone(r)
  \/ \E r \in 1..Len(runs) : LoopDone(r)
  \/ \E r \in 1..Len(runs) : FinalReveal(r)
  \/ \E r \in 1..Len(runs) : ShowEnd(r)
  \/ RunAgain

Spec == Init /\ [][Next]_vars

InitFair == Init /\ device <= MaxFairDevices

\* timers fire, pending probes complete and awaits continue
FairSpec == InitFair /\ [][Next]_vars /\ WF_vars(Step)

SpecClicks == InitClicks /\ [][Next]_vars

\* addResultLine rejects (a DOM operation of the host page throws): the
\* accumulators were already updated, and the catch block of the loop runs
ReportThrows(r) ==
  /\ runs[r].pc = "report"
  /\ runs[r].successfulTests + Len(runs[r].failedTests) - Len(runs[r].invoked)
       < MaxReportThrows
  /\ runs' = [runs EXCEPT ![r] = CatchProbeError(runs[r])]
  /\ UNCHANGED <<env, disclaimerDisplay, finalContainer, endContainer, call>>

NextReport ==
  \/ Next
  \/ \E r \in 1..Len(runs) : ReportThrows(r)

\* one browser, with every probe available or with two failing ones
InitReport ==
  /\ device = 1
  /\ failing \in {{}, {"timezone", "canvas"}}
  /\ clickLimit = 1
  /\ call = NoCall
  /\ PageLoaded

\* the page in a document where reporting a result may throw
SpecReport == InitReport /\ [][NextReport]_vars

(***************************************************************************)
(* SECTION 10: lookupMarketShare called directly on chosen inputs.         *)
(***************************************************************************)
RECURSIVE Spaces(_)
Spaces(n) == IF n = 0 THEN "" ELSE " " \o Spaces(n - 1)

\* a key with up to MaxPad spaces on either side
Padded(k) == {Spaces(a) \o k \o Spaces(b) : a \in 0..MaxPad, b \in 0..MaxPad}

\* values that are not a key of any table
OtherValues ==
  {"", "Chrome 120.0.6099.130", "de-AT", "10", "unlisted", "NVIDIA", "x",
   "constructor", "toString"}

\* the values looked up in table t
LookupValues(t) ==
  UNION {Padded(Tables[t].data[j][1]) : j \in 1..Len(Tables[t].data)}
    \cup OtherValues

NoResult ==
  [percent |-> 0, percentIsNumber |-> FALSE, source |-> "", estimated |-> FALSE]

InitLookup ==
  /\ device = 1
  /\ failing = {}
  /\ clickLimit = 0
  /\ PageLoaded
  /\ \E t \in 1..Len(Tables) : \E v \in LookupValues(t) :
       call = [fn |-> "input", table |-> t, value |-> v, result |-> NoResult]

\* lookupMarketShare(Tables[call.table], call.value)
CallLookupMarketShare ==
  /\ call.fn = "input"
  /\ call' = [call EXCEPT !.fn = "lookupMarketShare",
                          !.result = lookupMarketShare(Tables[call.table], call.value)]
  /\ UNCHANGED <<env, runs, disclaimerDisplay, finalContainer, endContainer>>

NextLookup == CallLookupMarketShare

SpecLookup == InitLookup /\ [][NextLookup]_vars

(***************************************************************************)
(* SECTION 10b: analyzePixelRatio called directly on chosen raw ratios.    *)
(***************************************************************************)
NoAnalysis ==
  [displayRatio |-> 0, trueDPR |-> 0, zoomPercent |-> 0, isZoomed |-> FALSE,
   confidence |-> "", matchedBucket |-> ""]

\* the raw ratios: every multiple of 0.0001 up to MaxRawRatio / 10000
InitPixel ==
  /\ device = 1
  /\ failing = {}
  /\ clickLimit = 0
  /\ PageLoaded
  /\ \E v \in 1..MaxRawRatio :
       call = [fn |-> "input", ratio |-> v, result |-> NoAnalysis]

\* analyzePixelRatio(call.ratio)
CallAnalyzePixelRatio ==
  /\ call.fn = "input"
  /\ call' = [call EXCEPT !.fn = "analyzePixelRatio",
                          !.result = analyzePixelRatio(call.ratio)]
  /\ UNCHANGED <<env, runs, disclaimerDisplay, finalContainer, endContainer>>

NextPixel == CallAnalyzePixelRatio

SpecPixel == InitPixel /\ [][NextPixel]_vars

(***************************************************************************)
(* SECTION 10c: generateFingerprintHash called directly: a list is hashed  *)
(* twice, then hashed with two of its positions exchanged.                 *)
(***************************************************************************)
\* values of the kinds the probes deliver
HashValues ==
  { JSString("1920x1080"), JSString("2"), JSNumber("2"), JSNumber("1.25"),
    JSString("a|b"), JSBoolean(TRUE), JSNull, JSUndefined,
    JSArray(<<"Arial", "Verdana">>),
    JSObject(<<"vendor", "Google Inc.", "renderer", "Apple M1">>) }

\* the lists of 2 to MaxValues values
HashLists == UNION {[1..n -> HashValues] : n \in 2..MaxValues}

\* values with positions i and j exchanged
SwapValues(values, i, j) ==
  [k \in 1..Len(values) |->
     IF k = i THEN values[j] ELSE IF k = j THEN values[i] ELSE values[k]]

InitHash ==
  /\ device = 1
  /\ failing = {}
  /\ clickLimit = 0
  /\ PageLoaded
  /\ \E values \in HashLists : \E i \in 1..Len(values), j \in 1..Len(values) :
       /\ i < j
       /\ call = [fn |-> "input", values |-> values, i |-> i, j |-> j,
                  first |-> md5(""), second |-> md5(""), swapped |-> md5("")]

\* generateFingerprintHash(values), the first time
HashFirst ==
  /\ call.fn = "input"
  /\ call' = [call EXCEPT !.fn = "hashed once",
                          !.first = generateFingerprintHash(call.values)]
  /\ UNCHANGED <<env, runs, disclaimerDisplay, finalContainer, endContainer>>

\* generateFingerprintHash(values), again
HashSecond ==
  /\ call.fn = "hashed once"
  /\ call' = [call EXCEPT !.fn = "hashed twice",
                          !.second = generateFingerprintHash(call.values)]
  /\ UNCHANGED <<env, runs, disclaimerDisplay, finalContainer, endContainer>>

\* generateFingerprintHash of the list with two positions exchanged
HashSwapped ==
  /\ call.fn = "hashed twice"
  /\ call' = [call EXCEPT !.fn = "hashed swapped",
                          !.swapped = generateFingerprintHash(
                                        SwapValues(call.values, call.i, call.j))]
  /\ UNCHANGED <<env, runs, disclaimerDisplay, finalContainer, endContainer>>

NextHash ==
  \/ HashFirst
  \/ HashSecond
  \/ HashSwapped

SpecHash == InitHash /\ [][NextHash]_vars

(***************************************************************************)
(* SECTION 11: the properties.  What a run is expected to compute is       *)
(* derived here from the browser alone (device, failing), not from the     *)
(* accumulators of the run.                                                *)
(***************************************************************************)
Last(q) == q[Len(q)]

Range(q) == {q[k] : k \in 1..Len(q)}

RunIds == 1..Len(runs)

Finished == {"reveal", "endwait", "done"}

\* the attributes whose probe delivers a result, in processing order
SuccessfulOrder == SelectSeq(testOrder, LAMBDA a : a \notin failing)

FailedOrder == SelectSeq(testOrder, LAMBDA a : a \in failing)

ExpectedResult(a) == ProbeResults[device][a]

ExpectedBits(a) == SelectEntropy(a, ExpectedResult(a)).entropyBits

\* the sum of the entropy of the first n successful attributes
ExpectedTotal(n) == SumSeq[[k \in 1..n |-> ExpectedBits(SuccessfulOrder[k])]]

ExpectedHashInput ==
  JoinStrings[[k \in 1..Len(SuccessfulOrder) |->
                 JSONStringify(ExpectedResult(SuccessfulOrder[k]).value)], "|"]

\* the outcomes of the probes of a run that are not "ok", as display names
FailedNames(run) ==
  LET idx == SelectSeq([k \in 1..Len(run.outcomes) |-> k],
                       LAMBDA k : run.outcomes[k] # "ok")
  IN  [k \in 1..Len(idx) |-> tests[run.invoked[idx[k]]].name]

C1Safety ==
  \A r \in RunIds :
    LET run == runs[r]
    IN  /\ "throw" \in Range(run.outcomes) =>
             /\ run.failedTests = FailedNames(run)
             /\ \A k \in 1..Len(run.invoked) : run.invoked[k] = testOrder[k]
             /\ run.pc \in Finished => Len(run.invoked) = Len(testOrder)

C1Thrown == runs # << >> /\ "throw" \in Range(runs[1].outcomes)

C1Completed ==
  /\ runs # << >>
  /\ runs[1].pc = "done"
  /\ finalContainer.display
  /\ endContainer.display

\* C1: when the probe of an attribute throws, the exception is caught, the
\* attribute's display name is appended to failedTests, every later attribute
\* of testOrder is still processed in order, and the run completes with the
\* final report and the end state shown.
C1_ThrowIsCaught == [] C1Safety /\ (C1Thrown ~> C1Completed)

C1_Witness ==
  \E r \in RunIds :
    /\ runs[r].pc = "done"
    /\ \E k \in 1..(Len(testOrder) - 1) :
         /\ runs[r].outcomes[k] = "throw"
         /\ runs[r].outcomes[k + 1] = "ok"
    /\ finalContainer.display

\* C2: the step in which a probe returns null appends the attribute's display
\* name to failedTests, leaves totalEntropy, successfulTests,
\* fingerprintValues and completedTests as they were, and goes on to the
\* next attribute.
C2_NullLeavesAccumulators ==
  [][\A r \in RunIds :
       (/\ r <= Len(runs')
        /\ Len(runs'[r].outcomes) = Len(runs[r].outcomes) + 1
        /\ Last(runs'[r].outcomes) = "null")
       => /\ runs'[r].failedTests =
               Append(runs[r].failedTests, tests[testOrder[runs[r].i]].name)
          /\ runs'[r].totalEntropy = runs[r].totalEntropy
          /\ runs'[r].successfulTests = runs[r].successfulTests
          /\ runs'[r].fingerprintValues = runs[r].fingerprintValues
          /\ runs'[r].completedTests = runs[r].completedTests
          /\ runs'[r].i = runs[r].i + 1
          /\ runs'[r].pc = "loop"]_vars

C2_Witness ==
  \E r \in RunIds :
    /\ runs[r].outcomes # << >>
    /\ Last(runs[r].outcomes) = "null"
    /\ runs[r].successfulTests > 0
    /\ runs[r].pc = "loop"
    /\ runs[r].i <= Len(testOrder)

\* C3: at most one probe invocation is in progress at any time, and no probe
\* is in progress in the step in which a result is aggregated (the step that
\* updates totalEntropy, successfulTests and fingerprintValues), for every
\* sequence of Start clicks and probe completions.
C3_ProbesNeverConcurrent ==
  /\ [](Cardinality({r \in RunIds : runs[r].pc = "probing"}) <= 1)
  /\ [][\A r \in RunIds :
          (r <= Len(runs') /\ runs'[r].successfulTests = runs[r].successfulTests + 1)
          => \A q \in RunIds \ {r} : runs[q].pc # "probing"]_vars

\* C4: the probes of a run are invoked in the order screenResolution,
\* pixelRatio, timezone, language, userAgent, platform, doNotTrack, cpuCores,
\* deviceMemory, touchSupport, adBlocker, connectionType, webgl, fonts,
\* canvas, audio; no attribute is invoked twice, failed or not.
C4_FixedOrderNoRetry ==
  \A r \in RunIds :
    LET inv == runs[r].invoked
        order == <<"screenResolution", "pixelRatio", "timezone", "language",
                   "userAgent", "platform", "doNotTrack", "cpuCores",
                   "deviceMemory", "touchSupport", "adBlocker",
                   "connectionType", "webgl", "fonts", "canvas", "audio">>
    IN  /\ Len(inv) <= Len(order)
        /\ inv = SubSeq(order, 1, Len(inv))
        /\ \A j, k \in 1..Len(inv) : j # k => inv[j] # inv[k]
        /\ Len(runs[r].outcomes) = Len(inv)
        /\ runs[r].pc \in Finished => Len(inv) = Len(order)

C4_Witness ==
  \E r \in RunIds :
    /\ runs[r].pc = "done"
    /\ Len(runs[r].invoked) = 16
    /\ \E k \in 1..15 : runs[r].outcomes[k] # "ok" /\ runs[r].outcomes[k + 1] = "ok"

C5Safety ==
  \A r \in RunIds :
    LET run == runs[r]
    IN  /\ run.hashed = (IF run.pc \in Finished THEN 1 ELSE 0)
        /\ run.pc \in Finished =>
             /\ Len(run.invoked) = Len(testOrder)
             /\ run.fingerprintHash = md5(ExpectedHashInput)
        /\ run.pc \in {"endwait", "done"} =>
             /\ finalContainer.display
             /\ finalContainer.hash = md5(ExpectedHashInput)
             /\ finalContainer.tests = Len(SuccessfulOrder)

C5Completed ==
  /\ runs # << >>
  /\ runs[1].pc = "done"
  /\ runs[1].hashed = 1
  /\ finalContainer.display

\* C5: a run whose probes all return or throw reaches the end of testOrder,
\* computes the fingerprint hash exactly once, over the raw values of the
\* successful attributes in processing order, and shows the final report,
\* whatever set of attributes fails (all 16 included).
C5_RunCompletesHashOnce == [] C5Safety /\ ((runs # << >>) ~> C5Completed)

C5_Witness ==
  /\ failing = DOMAIN tests
  /\ runs # << >>
  /\ runs[1].pc = "done"
  /\ runs[1].fingerprintHash = md5("")
  /\ finalContainer.display

\* every percent of every table, and every default, gives an entropy >= 0;
\* every baseline is >= 0
C6Tables ==
  /\ \A t \in 1..Len(Tables) :
       /\ \A j \in 1..Len(Tables[t].data) :
            percentToEntropy(Tables[t].data[j][2]) >= 0
       /\ \A v \in OtherValues :
            percentToEntropy(lookupMarketShare(Tables[t], v).percent) >= 0
  /\ \A a \in DOMAIN BASELINE_ENTROPY : BASELINE_ENTROPY[a] >= 0
  /\ \A d \in 1..NumDevices : \A a \in DOMAIN tests :
       SelectEntropy(a, ProbeResults[d][a]).entropyBits >= 0

C6Contributions ==
  \A r \in RunIds :
    \A k \in 1..Len(runs[r].completedTests) :
      runs[r].completedTests[k].entropy >= 0

\* C6: totalEntropy of a run never decreases from one step to the next, and
\* every entropy contribution is >= 0, for every reading of the probes and
\* every percent and baseline of the shipped tables.
C6_EntropyNeverDecreases ==
  /\ [](C6Tables /\ C6Contributions)
  /\ [][\A r \in RunIds :
          (r <= Len(runs') /\ runs[r].pc # "fade")
          => runs'[r].totalEntropy >= runs[r].totalEntropy]_vars

C6_Witness ==
  \E r \in RunIds :
    /\ Len(runs[r].completedTests) >= 3
    /\ runs[r].totalEntropy > runs[r].completedTests[1].entropy
    /\ \E k \in 1..Len(runs[r].completedTests) :
         /\ runs[r].completedTests[k].entropy > 0
         /\ runs[r].completedTests[k].entropy < 1000

\* C7: totalEntropy is in every state the exact sum of the entropy added so
\* far (the entropy of the successful attributes processed so far), also
\* after 2^totalEntropy has reached WORLD_POPULATION: it is never capped,
\* clamped or reduced.
C7_TotalNeverCapped ==
  \A r \in RunIds :
    LET run == runs[r]
    IN  /\ run.successfulTests = Len(run.completedTests)
        /\ run.successfulTests <= Len(SuccessfulOrder)
        /\ run.totalEntropy = ExpectedTotal(run.successfulTests)
        /\ run.totalEntropy =
             SumSeq[[k \in 1..Len(run.completedTests) |-> run.completedTests[k].entropy]]

C7_Witness ==
  \E r \in RunIds :
    /\ runs[r].alreadyUnique
    /\ runs[r].pc = "done"
    /\ BigGE[entropyToUniqueness(runs[r].totalEntropy - 10000), WORLD_POPULATION]
    /\ runs[r].totalEntropy > 40000

\* the text of min(2^bits, WORLD_POPULATION)
CappedText(bits) ==
  formatNumber(DecMin(entropyToUniqueness(bits), WORLD_POPULATION)).text

\* C8: the anonymity-set size shown for the running total after every step,
\* and in the final result, is min(2^totalEntropy, WORLD_POPULATION): from
\* 2^totalEntropy >= WORLD_POPULATION on it is WORLD_POPULATION.
C8_DisplayCapped ==
  /\ \A r \in RunIds :
       runs[r].line.shown =>
         runs[r].line.count = CappedText(runs[r].line.totalEntropy)
  /\ \A r \in RunIds :
       runs[r].pc \in {"endwait", "done"} =>
         finalContainer.uniqueness =
           "You are 1 in " \o CappedText(runs[r].totalEntropy) \o "."

\* C9: at the end of a run totalEntropy is the sum of the entropy of exactly
\* the successful attributes, and below the population cap the final result
\* shows 2^totalEntropy; lookup hits at 25%, 12.5% and 3.125% give 2 + 3 + 5 =
\* 10 bits and an anonymity set of 1024.
C9_FinalTotal ==
  /\ \A r \in RunIds :
       runs[r].pc \in {"endwait", "done"} =>
         /\ runs[r].totalEntropy = ExpectedTotal(Len(SuccessfulOrder))
         /\ runs[r].successfulTests = Len(SuccessfulOrder)
         /\ Len(runs[r].failedTests) = Len(FailedOrder)
         /\ finalContainer.tests = Len(SuccessfulOrder)
         /\ finalContainer.bits = bitsText(ExpectedTotal(Len(SuccessfulOrder)))
         /\ ~finalContainer.isUnique =>
              finalContainer.uniqueness =
                "You are 1 in "
                  \o formatNumber(entropyToUniqueness(ExpectedTotal(Len(SuccessfulOrder)))).text
                  \o "."
  /\ percentToEntropy(25000) = 2000
  /\ percentToEntropy(12500) = 3000
  /\ percentToEntropy(3125) = 5000
  /\ entropyToUniqueness(2000 + 3000 + 5000) = DecOfInt(1024)
  /\ formatNumber(entropyToUniqueness(2000 + 3000 + 5000)).text = "1,024"

C9_Witness ==
  \E r \in RunIds :
    /\ runs[r].pc = "done"
    /\ failing # {}
    /\ runs[r].successfulTests >= 3
    /\ ~finalContainer.isUnique
    /\ runs[r].totalEntropy > 10000

\* C10: a value whose trimmed string form is a key of the table's data is
\* resolved to that key's percent, with estimated = false.
C10_ExactKey ==
  call.fn = "lookupMarketShare" =>
    \A j \in 1..Len(Tables[call.table].data) :
      call.value \in Padded(Tables[call.table].data[j][1]) =>
        /\ call.result.percentIsNumber
        /\ call.result.percent = Tables[call.table].data[j][2]
        /\ call.result.estimated = FALSE

C10_Witness ==
  /\ call.fn = "lookupMarketShare"
  /\ \E j \in 1..Len(Tables[call.table].data) :
       /\ call.value = " " \o Tables[call.table].data[j][1] \o " "
       /\ \E i \in 1..Len(Tables[call.table].data) :
            /\ i # j
            /\ Includes(Tables[call.table].data[j][1], Tables[call.table].data[i][1])
  /\ ~call.result.estimated

\* the value matches no key of the table: it is not a key, contains no key and
\* is contained in no key
MatchesNoKey(dataSource, value) ==
  \A j \in 1..Len(dataSource.data) :
    /\ dataSource.data[j][1] # value
    /\ ~Includes(value, dataSource.data[j][1])
    /\ ~Includes(dataSource.data[j][1], value)

\* C11: for every table, a value that is neither a key nor a substring match
\* in either direction with a key is resolved to the table's defaultPercent,
\* with estimated = true.
C11_DefaultOnMiss ==
  (call.fn = "lookupMarketShare" /\ MatchesNoKey(Tables[call.table], Trim(call.value))) =>
    /\ call.result.percentIsNumber
    /\ Tables[call.table].hasDefault
    /\ call.result.percent = Tables[call.table].defaultPercent
    /\ call.result.estimated

\* the attributes whose probe looks the reading up and falls back to the
\* baseline, with their tables
C12Tables ==
  [ screenResolution |-> SCREEN_RESOLUTION_DATA, timezone |-> TIMEZONE_DATA,
    language |-> LANGUAGE_DATA, platform |-> PLATFORM_DATA,
    cpuCores |-> CPU_CORES_DATA, deviceMemory |-> DEVICE_MEMORY_DATA ]

\* C12: an observed screen resolution, timezone, language, platform, CPU core
\* count or device memory that is not a key of the attribute's table
\* contributes the attribute's baseline entropy, marked estimated.
C12_UnlistedUsesBaseline ==
  \A r \in RunIds :
    LET a == testOrder[Min(runs[r].i, Len(testOrder))]
    IN  (/\ runs[r].pc = "report"
         /\ a \in DOMAIN C12Tables
         /\ DataIndex(C12Tables[a], Reading(a, device)) = 0) =>
          /\ runs[r].lineArgs.isEstimated
          /\ runs[r].lineArgs.testEntropy = BASELINE_ENTROPY[a]

\* the ratios listed in the pixel-ratio table, in units of 1/10000
C13Listed == {knownDPRs[b] * 10 : b \in 1..Len(knownDPRs)}

\* C13: a reported pixel ratio that is not one of the ratios listed in the
\* pixel-ratio table contributes the baseline 2.0 bits, marked estimated.
C13_UnlistedRatioUsesBaseline ==
  \A r \in RunIds :
    (/\ runs[r].pc = "report"
     /\ testOrder[Min(runs[r].i, Len(testOrder))] = "pixelRatio"
     /\ Reading("pixelRatio", device) \notin C13Listed) =>
      /\ runs[r].lineArgs.isEstimated
      /\ runs[r].lineArgs.testEntropy = BASELINE_ENTROPY.pixelRatio

\* the result of analyzePixelRatio for a direct match of base (thousandths)
DirectResult(base) ==
  /\ call.result.trueDPR = base
  /\ call.result.zoomPercent = 100
  /\ call.result.confidence = "high"
  /\ call.result.isZoomed = FALSE

\* C14 as stated: every raw ratio within 0.015 of a canonical base ratio
\* yields that base with zoomPercent 100, confidence high, isZoomed false.
C14_DirectWithinTolerance ==
  call.fn = "analyzePixelRatio" =>
    \A b \in 1..Len(knownDPRs) :
      Abs(call.ratio - 10 * knownDPRs[b]) < 150 => DirectResult(knownDPRs[b])

\* C14 amended: the comparison is made on the ratio rounded to three
\* decimals, so the direct match is certain for every raw ratio less than
\* 0.0145 away from a canonical base ratio (its rounded value is then at most
\* 0.014 away); it takes precedence over any base x zoom interpretation, and
\* 2.0 yields base 2.
C14_DirectWithinRoundedTolerance ==
  call.fn = "analyzePixelRatio" =>
    /\ \A b \in 1..Len(knownDPRs) :
         Abs(call.ratio - 10 * knownDPRs[b]) < 145 => DirectResult(knownDPRs[b])
    /\ call.ratio = 20000 => DirectResult(2000)

\* a ratio next to base 2 that is also within tolerance of 1 x 200%
C14_Witness ==
  /\ call.fn = "analyzePixelRatio"
  /\ call.ratio = 20140
  /\ allMatches(call.result.displayRatio) # {}
  /\ DirectResult(2000)

\* the <<DPR, zoom level>> pairs, zoom level 1 (100%) excluded
C15Pairs == (1..Len(knownDPRs)) \X (2..Len(commonZoomLevels))

\* |x - base * zoom| in millionths, for x in millionths
C15Residual(x, p) == Abs(x - knownDPRs[p[1]] * commonZoomLevels[p[2]].zoom)

\* the result of analyzePixelRatio is the pair p, reported as a likely zoom
ZoomResult(p) ==
  /\ call.result.trueDPR = knownDPRs[p[1]]
  /\ call.result.zoomPercent = commonZoomLevels[p[2]].percent
  /\ call.result.confidence = "medium"
  /\ call.result.isZoomed = TRUE

\* the pairs of ps with the smallest base and, among them, the smallest residual
C15Best(x, ps) ==
  {p \in ps : \A q \in ps :
     \/ p[1] < q[1]
     \/ p[1] = q[1] /\ C15Residual(x, p) <= C15Residual(x, q)}

\* C15 as stated: when the raw ratio is within 0.015 of no base but of one or
\* more base x zoom products, the result is the pair with the smallest base
\* (then the smallest residual), with confidence medium and isZoomed true.
C15_LowestBaseZoomPair ==
  call.fn = "analyzePixelRatio" =>
    LET x  == call.ratio * 100
        ps == {p \in C15Pairs : C15Residual(x, p) < 15000}
    IN  ((\A b \in 1..Len(knownDPRs) : Abs(call.ratio - 10 * knownDPRs[b]) >= 150)
         /\ ps # {}) =>
          \E p \in C15Best(x, ps) : ZoomResult(p)

\* the rounded ratio d (thousandths) is exactly 0.015 away from a base or from
\* a base x zoom product
C15OnTolerance(d) ==
  \E b \in 1..Len(knownDPRs), z \in 1..Len(commonZoomLevels) :
    Abs(d * 1000 - knownDPRs[b] * commonZoomLevels[z].zoom) = 15000

\* C15 amended: the comparison is made on the ratio rounded to three
\* decimals.  When the rounded ratio is less than 0.015 away from no base but
\* from one or more base x zoom products (and exactly 0.015 away from none),
\* the result is the pair with the smallest base, with confidence medium and
\* isZoomed true; 1.1 yields base 1 at 110%.
C15_LowestBaseZoomPairRounded ==
  call.fn = "analyzePixelRatio" =>
    LET d  == (call.ratio + 5) \div 10
        ps == {p \in C15Pairs : C15Residual(d * 1000, p) < 15000}
    IN  /\ (/\ call.ratio % 10 # 5
            /\ ~C15OnTolerance(d)
            /\ \A b \in 1..Len(knownDPRs) : Abs(d - knownDPRs[b]) >= 15
            /\ ps # {}) =>
             \E p \in C15Best(d * 1000, ps) : ZoomResult(p)
        /\ call.ratio = 11000 => ZoomResult(<<1, 2>>)

\* 1.2 is 1 x 120% and 1.5 x 80%: the lower base is reported
C15_Witness ==
  /\ call.fn = "analyzePixelRatio"
  /\ call.ratio = 12000
  /\ Cardinality(allMatches(call.result.displayRatio)) >= 2
  /\ ZoomResult(<<1, 3>>)

\* the result of analyzePixelRatio is the low-confidence guess with this zoom
LowResult(zoomPercent) ==
  /\ call.result.trueDPR = knownDPRs[1]
  /\ call.result.zoomPercent = zoomPercent
  /\ call.result.confidence = "low"
  /\ call.result.isZoomed = TRUE

\* C16 as stated: 0.37 yields base 1, zoomPercent 37, confidence low, isZoomed
\* true; and when no base and no base x zoom product is within 0.015 of the
\* raw ratio, the result is base 1 with zoomPercent = round(raw * 100) and
\* confidence low.
C16_NoMatchDefault ==
  call.fn = "analyzePixelRatio" =>
    LET x == call.ratio * 100
    IN  /\ call.ratio = 3700 => LowResult(37)
        /\ (/\ \A b \in 1..Len(knownDPRs) : Abs(call.ratio - 10 * knownDPRs[b]) >= 150
            /\ \A p \in C15Pairs : C15Residual(x, p) >= 15000
            /\ call.ratio % 100 # 50) =>
             LowResult((call.ratio + 50) \div 100)

\* C16 amended: 0.37 is within 0.015 of 1.25 x 30% and yields base 1.25, zoom
\* 30, confidence medium.  When the ratio rounded to three decimals is more
\* than 0.015 away from every base and every base x zoom product, the result
\* is base 1, isZoomed true, confidence low, with zoomPercent the rounded
\* ratio times 100, rounded to an integer; 0.7 yields zoomPercent 70.
C16_NoMatchDefaultRounded ==
  call.fn = "analyzePixelRatio" =>
    LET d == (call.ratio + 5) \div 10
    IN  /\ call.ratio = 3700 => ZoomResult(<<2, 15>>)
        /\ call.ratio = 7000 => LowResult(70)
        /\ (/\ call.ratio % 10 # 5
            /\ \A b \in 1..Len(knownDPRs), z \in 1..Len(commonZoomLevels) :
                 Abs(d * 1000 - knownDPRs[b] * commonZoomLevels[z].zoom) > 15000) =>
             \E zoomPercent \in {d \div 10, d \div 10 + 1} :
               /\ Abs(zoomPercent * 10 - d) <= 5
               /\ LowResult(zoomPercent)

\* an unusual ratio above every base x zoom product that is listed
C16_Witness ==
  /\ call.fn = "analyzePixelRatio"
  /\ call.ratio = 37000
  /\ directMatches(call.result.displayRatio) = {}
  /\ allMatches(call.result.displayRatio) = {}
  /\ LowResult(370)

SetMin(S) == CHOOSE x \in S : \A y \in S : x <= y

\* the record of attribute k carries the lowest of its listed figures
C18Lowest(k) == BASELINE_ENTROPY[k] = SetMin(BaselineCandidates[k])

\* the timezone record: the lowest figure is listed, marked excluded and not
\* used; the lowest remaining one is
C18TimezoneException ==
  /\ SetMin(BaselineCandidates.timezone) \in BaselineExcluded.timezone
  /\ BASELINE_ENTROPY.timezone # SetMin(BaselineCandidates.timezone)
  /\ BASELINE_ENTROPY.timezone
       = SetMin(BaselineCandidates.timezone \ BaselineExcluded.timezone)

\* a probe that contributes an estimate contributes what the records say
C18Contributed ==
  \A r \in RunIds :
    LET a == testOrder[Min(runs[r].i, Len(testOrder))]
    IN  (/\ runs[r].pc = "report"
         /\ runs[r].lineArgs.isEstimated
         /\ a \in DOMAIN BASELINE_ENTROPY) =>
          runs[r].lineArgs.testEntropy = BASELINE_ENTROPY[a]

\* C18 as stated: every baseline record's bits is the minimum of the figures
\* considered for the attribute, with the single exception of timezone, where
\* the lowest (0.10) is rejected and the lowest remaining (3.04) is used.
C18_BaselineIsMinimum ==
  /\ \A k \in DOMAIN BASELINE_ENTROPY \ {"timezone"} : C18Lowest(k)
  /\ C18TimezoneException
  /\ C18Contributed

\* C18 amended: there are two exceptions.  Timezone rejects its lowest figure
\* (0.10) and uses the lowest remaining (3.04); pixelRatio uses an estimate of
\* 2.0 bits, below the only figure listed for it (5.64).  Every other record
\* carries the minimum of its figures, and no record is above the minimum of
\* its figures that are not excluded.
C18_BaselineIsMinimumButTwo ==
  /\ \A k \in DOMAIN BASELINE_ENTROPY \ {"timezone", "pixelRatio"} : C18Lowest(k)
  /\ C18TimezoneException
  /\ BASELINE_ENTROPY.pixelRatio = 2000
  /\ BASELINE_ENTROPY.pixelRatio < SetMin(BaselineCandidates.pixelRatio)
  /\ \A k \in DOMAIN BASELINE_ENTROPY :
       BASELINE_ENTROPY[k] <= SetMin(BaselineCandidates[k] \ BaselineExcluded[k])
  /\ C18Contributed

\* an unlisted timezone has contributed the timezone baseline
C18_Witness ==
  \E r \in RunIds :
    /\ runs[r].pc = "report"
    /\ testOrder[runs[r].i] = "timezone"
    /\ runs[r].lineArgs.isEstimated
    /\ runs[r].lineArgs.testEntropy = 3040
    /\ 100 \in BaselineCandidates.timezone

\* the accumulators of a run are those of a run that has handled nothing
C19Fresh(run) ==
  /\ run.totalEntropy = 0
  /\ run.successfulTests = 0
  /\ run.failedTests = << >>
  /\ run.fingerprintValues = << >>
  /\ run.completedTests = << >>
  /\ run.alreadyUnique = FALSE

\* C19: every run starts from fresh accumulators, and what a finished run has
\* computed (entropy, counts, failed list, fingerprint hash) is what the
\* browser alone determines, whatever other runs were started before it or
\* are in progress beside it.
C19_RunsAreIndependent ==
  \A r \in RunIds :
    LET run == runs[r]
    IN  /\ (run.pc = "fade" \/ (run.pc = "loop" /\ run.i = 1)) => C19Fresh(run)
        /\ run.pc \in Finished =>
             /\ run.totalEntropy = ExpectedTotal(Len(SuccessfulOrder))
             /\ run.successfulTests = Len(SuccessfulOrder)
             /\ Len(run.completedTests) = Len(SuccessfulOrder)
             /\ run.failedTests
                  = [k \in 1..Len(FailedOrder) |-> tests[FailedOrder[k]].name]
             /\ run.fingerprintHash = md5(ExpectedHashInput)

\* two runs started during one fade-out have both finished, with the same
\* fingerprint hash
C19_Witness ==
  /\ Len(runs) = 2
  /\ runs[1].pc \in Finished
  /\ runs[2].pc \in Finished
  /\ runs[2].totalEntropy > 0
  /\ runs[2].fingerprintHash = runs[1].fingerprintHash

\* C20: an attribute listed in failedTests has no completedTests record and
\* has contributed no value and no entropy; no attribute is both counted as
\* successful and listed as failed; and once k attributes have been handled,
\* successfulTests + Len(failedTests) = k, also when addResultLine throws.
C20_FailedContributesNothing ==
  \A r \in RunIds :
    LET run == runs[r]
    IN  /\ \A f \in 1..Len(run.failedTests), c \in 1..Len(run.completedTests) :
             run.completedTests[c].name # run.failedTests[f]
        /\ Len(run.fingerprintValues) = run.successfulTests
        /\ Len(run.completedTests) = run.successfulTests
        /\ run.pc = "loop" =>
             run.successfulTests + Len(run.failedTests) = run.i - 1

\* the value matches key j of the table in the partial-match tier
C21Matches(t, v, j) ==
  \/ Includes(v, Tables[t].data[j][1])
  \/ Includes(Tables[t].data[j][1], v)

\* the lookup of v in table t reaches the partial-match tier and finds a key
C21Partial(t, v) ==
  /\ DataIndex(Tables[t], v) = 0
  /\ v \notin ObjectPrototypeProps
  /\ \E j \in 1..Len(Tables[t].data) : C21Matches(t, v, j)

\* key i comes before key j when the keys of table t are enumerated: integer
\* keys in ascending numeric order first, then the other keys as written
C21Before(t, i, j) ==
  LET ki == Tables[t].data[i][1]
      kj == Tables[t].data[j][1]
  IN  IF IsArrayIndex(ki) /\ IsArrayIndex(kj) THEN IndexVal(ki) < IndexVal(kj)
      ELSE IF IsArrayIndex(ki) THEN TRUE
      ELSE IF IsArrayIndex(kj) THEN FALSE
      ELSE i < j

\* C21 as stated: the partial-match tier returns, with estimated = false, the
\* percent of the first matching key in insertion order.
C21_FirstKeyInInsertionOrder ==
  (call.fn = "lookupMarketShare" /\ C21Partial(call.table, Trim(call.value))) =>
    \E j \in 1..Len(Tables[call.table].data) :
      /\ C21Matches(call.table, Trim(call.value), j)
      /\ \A i \in 1..(j - 1) : ~C21Matches(call.table, Trim(call.value), i)
      /\ call.result.percent = Tables[call.table].data[j][2]
      /\ call.result.estimated = FALSE

\* C21 amended: the keys are scanned in the order of Object.keys, integer keys
\* in ascending numeric order before the other keys in insertion order; the
\* percent of the first matching key in that order is returned, with
\* estimated = false, and a later key that also matches is never returned.
C21_FirstKeyInObjectKeysOrder ==
  (call.fn = "lookupMarketShare" /\ C21Partial(call.table, Trim(call.value))) =>
    \E j \in 1..Len(Tables[call.table].data) :
      /\ C21Matches(call.table, Trim(call.value), j)
      /\ \A i \in 1..Len(Tables[call.table].data) :
           (i # j /\ C21Matches(call.table, Trim(call.value), i)) =>
             C21Before(call.table, j, i)
      /\ call.result.percentIsNumber
      /\ call.result.percent = Tables[call.table].data[j][2]
      /\ call.result.estimated = FALSE

\* "10" in DNT_DATA contains the keys "1" and "0": "0", written second, is
\* enumerated first
C21_Witness ==
  /\ call.fn = "lookupMarketShare"
  /\ Tables[call.table].name = "DNT_DATA"
  /\ call.value = "10"
  /\ call.result.percent = 3000
  /\ ~call.result.estimated

\* the entropy source of an observation by the stated order of rules
C22Rule(a, result) ==
  IF result.hasLookup /\ result.lookup.hasEntropy /\ ~result.lookup.estimated
  THEN [entropyBits |-> result.lookup.entropy, isEstimated |-> FALSE]
  ELSE IF result.hasEntropy
  THEN [entropyBits |-> result.entropy, isEstimated |-> FALSE]
  ELSE IF a = "webgl"
  THEN [entropyBits |-> BASELINE_ENTROPY.webglRenderer + BASELINE_ENTROPY.webglVendor,
        isEstimated |-> TRUE]
  ELSE IF a \in DOMAIN BASELINE_ENTROPY
  THEN [entropyBits |-> BASELINE_ENTROPY[a], isEstimated |-> TRUE]
  ELSE [entropyBits |-> 1000, isEstimated |-> TRUE]

\* the entropy source of an observation when the first rule applies to every
\* lookup that carries an entropy, estimate or not
C22RuleOfCode(a, result) ==
  IF result.hasLookup /\ result.lookup.hasEntropy
  THEN [entropyBits |-> result.lookup.entropy, isEstimated |-> result.lookup.estimated]
  ELSE C22Rule(a, result)

\* C22 as stated: the entropy recorded for every successful observation of a
\* run, and the estimated flag handed to the report, are those of the first
\* applicable rule in the order: entropy of a lookup that was a real match,
\* entropy supplied by the probe, renderer baseline + vendor baseline for
\* webgl, the baseline record of the attribute when the lookup is an estimate
\* or absent, the 1.0-bit fallback.
C22_EntropySourcePriority ==
  \A r \in RunIds :
    LET run == runs[r]
        n   == Len(run.completedTests)
    IN  /\ n <= Len(SuccessfulOrder)
        /\ \A k \in 1..n :
             run.completedTests[k].entropy =
               C22Rule(SuccessfulOrder[k], ExpectedResult(SuccessfulOrder[k])).entropyBits
        /\ run.pc = "report" =>
             /\ n >= 1
             /\ run.lineArgs.testEntropy = run.completedTests[n].entropy
             /\ run.lineArgs.isEstimated =
                  C22Rule(SuccessfulOrder[n], ExpectedResult(SuccessfulOrder[n])).isEstimated

\* C22 amended: the first rule applies whenever the result carries a lookup
\* with an entropy, a real match or an estimate, and the estimated flag is the
\* one of the lookup; the entropy supplied by the probe, the webgl
\* combination, the baseline record and the 1.0-bit fallback follow in this
\* order for a result without lookup entropy.
C22_LookupEntropyFirst ==
  \A r \in RunIds :
    LET run == runs[r]
        n   == Len(run.completedTests)
    IN  /\ n <= Len(SuccessfulOrder)
        /\ \A k \in 1..n :
             run.completedTests[k].entropy =
               C22RuleOfCode(SuccessfulOrder[k], ExpectedResult(SuccessfulOrder[k])).entropyBits
        /\ run.pc = "report" =>
             /\ n >= 1
             /\ run.lineArgs.testEntropy = run.completedTests[n].entropy
             /\ run.lineArgs.isEstimated =
                  C22RuleOfCode(SuccessfulOrder[n], ExpectedResult(SuccessfulOrder[n])).isEstimated

\* a finished run whose webgl probe had no debug info: half the renderer
\* baseline, carried by an estimated lookup, is what was recorded
C22_Witness ==
  \E r \in RunIds :
    /\ runs[r].pc = "done"
    /\ "webgl" \notin failing
    /\ ExpectedResult("webgl").lookup.estimated
    /\ ExpectedResult("webgl").lookup.entropy = BASELINE_ENTROPY.webglRenderer \div 2
    /\ \E k \in 1..Len(runs[r].completedTests) :
         /\ SuccessfulOrder[k] = "webgl"
         /\ runs[r].completedTests[k].entropy = BASELINE_ENTROPY.webglRenderer \div 2
    /\ \E k \in 1..Len(runs[r].completedTests) :
         /\ ~ExpectedResult(SuccessfulOrder[k]).lookup.estimated
         /\ runs[r].completedTests[k].entropy =
              ExpectedResult(SuccessfulOrder[k]).lookup.entropy

(***************************************************************************)
(* SECTION 10d: the entropy source selection of runExperiment applied to   *)
(* every shape of result a probe can hand over.                            *)
(***************************************************************************)
\* the results: with or without a lookup, the lookup with or without an
\* entropy, estimated or not, with or without an entropy of the result itself
SelectResults ==
  { [ value |-> JSBoolean(TRUE), hasLookup |-> hl, hasEntropy |-> he,
      entropy |-> IF he THEN 1000 * e ELSE 0,
      lookup |-> [ percentIsNull |-> TRUE, percent |-> 0, estimated |-> est,
                   hasEntropy |-> hl /\ hle,
                   entropy |-> IF hl /\ hle THEN 1000 * le ELSE 0,
                   oneInX |-> entropyToUniqueness(IF hl /\ hle THEN 1000 * le ELSE 0) ] ] :
    hl \in BOOLEAN, hle \in BOOLEAN, est \in BOOLEAN, he \in BOOLEAN,
    e \in 0..MaxSuppliedBits, le \in 0..MaxSuppliedBits }

NoSelection == [entropyBits |-> 0, isEstimated |-> FALSE, rule |-> ""]

InitSelect ==
  /\ device = 1
  /\ failing = {}
  /\ clickLimit = 0
  /\ PageLoaded
  /\ \E k \in 1..Len(testOrder), res \in SelectResults :
       call = [fn |-> "input", testName |-> testOrder[k], result |-> res,
               selected |-> NoSelection]

\* the entropy source selection of the loop body for call.testName
CallSelectEntropy ==
  /\ call.fn = "input"
  /\ call' = [call EXCEPT !.fn = "SelectEntropy",
                          !.selected = SelectEntropy(call.testName, call.result)]
  /\ UNCHANGED <<env, runs, disclaimerDisplay, finalContainer, endContainer>>

NextSelect == CallSelectEntropy

SpecSelect == InitSelect /\ [][NextSelect]_vars

\* a result the probe interface allows: the lookup is optional, and a lookup
\* carries an entropy
C23Allowed(result) == result.hasLookup => result.lookup.hasEntropy

C24Reached(bits) == BigGE[entropyToUniqueness(bits), WORLD_POPULATION]

\* the steps of a run reported so far whose running total has reached the
\* world population
C24Steps(run) == {k \in 1..Len(run.framings) : C24Reached(ExpectedTotal(k))}

C25_TablesWellFormed ==
  call.fn = "lookupMarketShare" =>
    LET t == Tables[call.table]
    IN  /\ \A j \in 1..Len(t.data) : t.data[j][2] > 0 /\ t.data[j][2] <= 100000
        /\ t.hasDefault
        /\ t.defaultPercent > 0 /\ t.defaultPercent <= 100000

(***************************************************************************)
(* SECTION 10e: percentToEntropy and percentToOneInX called one after the   *)
(* other on a percent, as a probe does with the percent of its lookup.     *)
(***************************************************************************)
InitPercent ==
  /\ device = 1
  /\ failing = {}
  /\ clickLimit = 0
  /\ PageLoaded
  /\ \E p \in (0 - MaxNonPositive)..MaxPercent :
       call = [fn |-> "input", percent |-> p, entropy |-> 0, oneInX |-> << >>]

\* const entropy = percentToEntropy(lookup.percent)
CallPercentToEntropy ==
  /\ call.fn = "input"
  /\ call' = [call EXCEPT !.fn = "percentToEntropy",
                          !.entropy = percentToEntropy(call.percent)]
  /\ UNCHANGED <<env, runs, disclaimerDisplay, finalContainer, endContainer>>

\* const oneInX = percentToOneInX(lookup.percent)
CallPercentToOneInX ==
  /\ call.fn = "percentToEntropy"
  /\ call' = [call EXCEPT !.fn = "percentToOneInX",
                          !.oneInX = percentToOneInX(call.percent)]
  /\ UNCHANGED <<env, runs, disclaimerDisplay, finalContainer, endContainer>>

NextPercent ==
  \/ CallPercentToEntropy
  \/ CallPercentToOneInX

SpecPercent == InitPercent /\ [][NextPercent]_vars

\* 100 / 2^k percent, in thousandths of a percent, for the k where it is whole
C26Halvings == <<100000, 50000, 25000, 12500, 6250, 3125>>

\* the decimal number x times the percent p, p in thousandths: the integer
\* part and the four decimals of x * p / 1000 as one integer
C26Times(x, p) ==
  LET n == (IF Len(x) >= 1 THEN x[1] ELSE 0)
             + (IF Len(x) >= 2 THEN x[2] * LimbBase ELSE 0)
             + (IF Len(x) >= 3 THEN x[3] * LimbBase * LimbBase ELSE 0)
  IN  (n \div 1000) * p + ((n % 1000) * p) \div 1000

\* C26: for every percent <= 0 percentToEntropy returns exactly 10 and
\* percentToOneInX exactly 1000; for every percent > 0 they return
\* log2(100 / percent) and 100 / percent: 0 bits at 100, k bits at 100 / 2^k
\* (2 bits at 25), one bit more whenever the percent is halved, fewer bits for
\* a larger percent, and oneInX times percent is 100 (bits to two
\* thousandths, oneInX to the four decimals kept).
C26_PercentConversions ==
  /\ (call.fn \in {"percentToEntropy", "percentToOneInX"} /\ call.percent <= 0) =>
       call.entropy = 10000
  /\ (call.fn = "percentToOneInX" /\ call.percent <= 0) =>
       call.oneInX = DecOfInt(1000)
  /\ (call.fn \in {"percentToEntropy", "percentToOneInX"} /\ call.percent > 0) =>
       /\ \A k \in 1..Len(C26Halvings) :
            call.percent = C26Halvings[k] => call.entropy = 1000 * (k - 1)
       /\ call.percent <= 100000 => call.entropy >= 0
       /\ call.percent >= 100000 => call.entropy <= 0
       /\ call.percent <= 99000 => call.entropy > 0
       /\ call.percent >= 101000 => call.entropy < 0
       /\ call.percent > 1 =>
            call.entropy <= percentToEntropy(call.percent - 1)
       /\ 2 * call.percent <= MaxPercent =>
            Abs(call.entropy - percentToEntropy(2 * call.percent) - 1000) <= 2
  /\ (call.fn = "percentToOneInX" /\ call.percent > 0) =>
       /\ C26Times(call.oneInX, call.percent) <= 100 * LimbBase
       /\ C26Times(call.oneInX, call.percent) > 100 * LimbBase - call.percent \div 1000 - 2

\* both conversions were applied to the percent 0
C26_Witness ==
  /\ call.fn = "percentToOneInX"
  /\ call.percent = 0
  /\ call.entropy = 10000
  /\ call.oneInX = DecOfInt(1000)

(***************************************************************************)
(* SECTION 10f: a page in which the callback that resolves the promise of  *)
(* one asynchronous probe never fires (call.testName names the probe).     *)
(***************************************************************************)
InitStalled ==
  /\ device \in 1..NumDevices
  /\ failing \in FailureSets
  /\ clickLimit = 1
  /\ PageLoaded
  /\ \E a \in AsyncTests : call = [fn |-> "stalled", testName |-> a]

\* variant: a probe whose callback never fires is given up as unavailable
ProbeResolvesOrTimesOut(r) ==
  /\ runs[r].pc = "probing"
  /\ runs' = [runs EXCEPT ![r] =
                IF testOrder[runs[r].i] = call.testName
                THEN RecordUnavailable(runs[r])
                ELSE Aggregate(runs[r], ProbeResults[device][testOrder[runs[r].i]])]
  /\ UNCHANGED <<env, disclaimerDisplay, finalContainer, endContainer, call>>

\* await test.run() continues when the promise resolves; nothing else ends
\* the await, and the promise of the stalled probe never resolves
ProbeResolvesUnlessStalled(r) ==
  /\ runs[r].pc = "probing"
  /\ testOrder[runs[r].i] # call.testName
  /\ runs' = [runs EXCEPT ![r] =
                Aggregate(runs[r], ProbeResults[device][testOrder[runs[r].i]])]
  /\ UNCHANGED <<env, disclaimerDisplay, finalContainer, endContainer, call>>

NextStalled ==
  \/ ClickStart
  \/ \E r \in 1..Len(runs) : FadeDone(r)
  \/ \E r \in 1..Len(runs) : ProbeReturnsNull(r)
  \/ \E r \in 1..Len(runs) : ProbeThrows(r)
  \/ \E r \in 1..Len(runs) : ProbeSyncSucceeds(r)
  \/ \E r \in 1..Len(runs) : ProbeAsyncStarts(r)
  \/ \E r \in 1..Len(runs) : ProbeResolvesUnlessStalled(r)
  \/ \E r \in 1..Len(runs) : ReportDone(r)
  \/ \E r \in 1..Len(runs) : LoopDone(r)
  \/ \E r \in 1..Len(runs) : FinalReveal(r)
  \/ \E r \in 1..Len(runs) : ShowEnd(r)
  \/ RunAgain

SpecStalled == InitStalled /\ [][NextStalled]_vars

\* the position in testOrder of the probe that never resolves
C27StalledAt == CHOOSE k \in 1..Len(testOrder) : testOrder[k] = call.testName

\* C27: when the invocation of a probe never resolves, the run never produces
\* a final report or a fingerprint hash and never invokes a later probe of
\* testOrder: it stays at the pending probe, whatever else happens.
C27_StalledRunNeverProceeds ==
  /\ [](\A r \in RunIds :
          call.testName \notin failing =>
            /\ runs[r].hashed = 0
            /\ runs[r].pc \notin Finished
            /\ ~finalContainer.display
            /\ ~endContainer.display
            /\ Len(runs[r].invoked) <= C27StalledAt
            /\ runs[r].invoked = SubSeq(testOrder, 1, Len(runs[r].invoked)))
  /\ [][\A r \in RunIds :
          (runs[r].pc = "probing" /\ testOrder[runs[r].i] = call.testName)
          => (r <= Len(runs') /\ runs'[r] = runs[r])]_vars

\* the audio probe, invoked last after fifteen attributes were processed, is
\* pending and its callback never fires
C27_Witness ==
  \E r \in RunIds :
    /\ call.testName = "audio"
    /\ "audio" \notin failing
    /\ runs[r].pc = "probing"
    /\ testOrder[runs[r].i] = "audio"
    /\ runs[r].successfulTests + Len(runs[r].failedTests) = 15
    /\ runs[r].hashed = 0

(***************************************************************************)
(* SECTION 10g: generateFingerprintHash called on two different lists.     *)
(***************************************************************************)
\* values of the kinds the probes deliver: strings with and without the
\* separator, a number, null (doNotTrack not set) and undefined (a browser
\* without navigator.doNotTrack)
PairValues ==
  { JSString("a|b"), JSString("a"), JSString("b"), JSNumber("2"), JSNull,
    JSUndefined }

\* the lists of 0 to MaxPairLen values
PairLists == UNION {[1..n -> PairValues] : n \in 0..MaxPairLen}

InitHashPair ==
  /\ device = 1
  /\ failing = {}
  /\ clickLimit = 0
  /\ PageLoaded
  /\ \E values \in PairLists, others \in PairLists :
       /\ values # others
       /\ call = [fn |-> "input", values |-> values, others |-> others,
                  first |-> md5(""), second |-> md5("")]

\* generateFingerprintHash(values)
HashValuesList ==
  /\ call.fn = "input"
  /\ call' = [call EXCEPT !.fn = "hashed values",
                          !.first = generateFingerprintHash(call.values)]
  /\ UNCHANGED <<env, runs, disclaimerDisplay, finalContainer, endContainer>>

\* generateFingerprintHash(others)
HashOthersList ==
  /\ call.fn = "hashed values"
  /\ call' = [call EXCEPT !.fn = "hashed both",
                          !.second = generateFingerprintHash(call.others)]
  /\ UNCHANGED <<env, runs, disclaimerDisplay, finalContainer, endContainer>>

NextHashPair ==
  \/ HashValuesList
  \/ HashOthersList

SpecHashPair == InitHashPair /\ [][NextHashPair]_vars

\* C28: the separator "|" does not occur in the serialization of any value
\* of a hashed list, and two different ordered lists of values (strings with
\* "|", null and undefined included) never have the same pre-hash string.
C28_PreHashInjective ==
  call.fn = "hashed both" =>
    /\ \A k \in 1..Len(call.values) : ~Includes(JSONStringify(call.values[k]), "|")
    /\ \A k \in 1..Len(call.others) : ~Includes(JSONStringify(call.others[k]), "|")
    /\ call.first.digestOf # call.second.digestOf

\* C29: after every step of a run, length(completedTests) =
\* length(fingerprintValues) = successfulTests and the entropy fields of
\* completedTests sum to totalEntropy; every completed test is easy, medium or
\* hard, and the easy, medium and hard totals of the end state add up to the
\* entropy shown in the final reveal.
C29_TotalsAddUp ==
  \A r \in RunIds :
    LET run == runs[r]
    IN  /\ Len(run.completedTests) = run.successfulTests
        /\ Len(run.fingerprintValues) = run.successfulTests
        /\ SumSeq[[k \in 1..Len(run.completedTests) |-> run.completedTests[k].entropy]]
             = run.totalEntropy
        /\ \A k \in 1..Len(run.completedTests) :
             run.completedTests[k].difficulty \in {"easy", "medium", "hard"}
        /\ run.pc = "done" =>
             /\ endContainer.display
             /\ endContainer.easyEntropy + endContainer.mediumEntropy
                  + endContainer.hardEntropy = run.totalEntropy
             /\ endContainer.count = run.successfulTests
             /\ finalContainer.bits = bitsText(run.totalEntropy)
             /\ finalContainer.tests = run.successfulTests

\* a finished run with a failed probe whose end state has easy, medium and
\* hard totals, all positive
C29_Witness ==
  \E r \in RunIds :
    /\ runs[r].pc = "done"
    /\ Len(runs[r].failedTests) > 0
    /\ runs[r].successfulTests = 15
    /\ endContainer.display
    /\ endContainer.easyEntropy > 0
    /\ endContainer.mediumEntropy > 0
    /\ endContainer.hardEntropy > 0

\* C30: for every raw ratio analyzePixelRatio returns a trueDPR in
\* {1, 1.25, 1.5, 2, 2.5, 3} with matchedBucket = String(trueDPR), an exact
\* key of PIXEL_RATIO_DATA, so that the lookup of the bucket is an exact hit
\* at every confidence, and isZoomed = false exactly when zoomPercent = 100
\* exactly when confidence = "high".
C30_BucketAlwaysListed ==
  call.fn = "analyzePixelRatio" =>
    /\ call.result.trueDPR \in {1000, 1250, 1500, 2000, 2500, 3000}
    /\ call.result.matchedBucket = Thousandths(call.result.trueDPR)
    /\ call.result.matchedBucket \in {"1", "1.25", "1.5", "2", "2.5", "3"}
    /\ DataIndex(PIXEL_RATIO_DATA, call.result.matchedBucket) # 0
    /\ ~lookupMarketShare(PIXEL_RATIO_DATA, call.result.matchedBucket).estimated
    /\ lookupMarketShare(PIXEL_RATIO_DATA, call.result.matchedBucket).percent
         = PIXEL_RATIO_DATA.data[DataIndex(PIXEL_RATIO_DATA, call.result.matchedBucket)][2]
    /\ call.result.confidence \in {"high", "medium", "low"}
    /\ (call.result.isZoomed = FALSE) <=> (call.result.zoomPercent = 100)
    /\ (call.result.zoomPercent = 100) <=> (call.result.confidence = "high")

\* a ratio above every base x zoom product: confidence low, bucket "1"
C30_Witness ==
  /\ call.fn = "analyzePixelRatio"
  /\ call.ratio > 40000
  /\ call.result.confidence = "low"
  /\ call.result.zoomPercent > 400
  /\ call.result.matchedBucket = "1"

====
